---- MODULE Spec2Model ----
(***************************************************************************)
(* Model of the statistical analysis engine of NemoClinical                *)
(* (backend/services/dataAnalyzer.ts, class DataAnalyzer).                 *)
(*                                                                         *)
(* Every operation of the engine is a function of a Dataset and a few      *)
(* parameters.  The state is the dataset handed to the engine, the last    *)
(* call made on it and what that call returned or threw.                   *)
(*                                                                         *)
(* Numbers.  Dataset cells hold small naturals.  Means, variances and      *)
(* covariances are computed as exact fractions <<num, den>>; a square root *)
(* is kept symbolically.  The bin bounds of generateHistogram decide which *)
(* bin a value is counted in, so they are computed in IEEE-754 binary64    *)
(* with round-to-nearest-even, as the JavaScript operators / * + do.       *)
(*                                                                         *)
(* simple-statistics 7.8 (imported as ss) is modelled by what its          *)
(* functions compute: ss.variance and ss.standardDeviation divide by n,    *)
(* ss.sampleVariance / sampleCovariance divide by n-1.                     *)
(***************************************************************************)
EXTENDS Integers, Sequences, FiniteSets, TLC

VARIABLES dataset, op, result

vars == <<dataset, op, result>>

----------------------------------------------------------------------------
(* Bounds of the explored inputs *)

MaxRows == 3
MaxVal == 2
MaxBins == 5
ManyBins == 49

----------------------------------------------------------------------------
(* Cell values: string | number | boolean | null  (types/analysis.ts)      *)

Null == [t |-> "null", n |-> 0, s |-> ""]
Undefined == [t |-> "undefined", n |-> 0, s |-> ""]
Num(k) == [t |-> "number", n |-> k, s |-> ""]
Str(x) == [t |-> "string", n |-> 0, s |-> x]
Bool(b) == [t |-> "boolean", n |-> 0, s |-> IF b THEN "true" ELSE "false"]

DataRow(cols, cells) == [cols -> cells]

Range(f) == {f[i] : i \in DOMAIN f}

SeqsUpTo(S, n) == UNION {[1..k -> S] : k \in 0..n}

Dataset(cols, cells, maxRows) ==
    {[columns |-> cols, rows |-> r] : r \in SeqsUpTo(DataRow(Range(cols), cells), maxRows)}

(* row[col]: a property the row does not have reads as undefined *)
Get(row, col) == IF col \in DOMAIN row THEN row[col] ELSE Undefined

isNumber(val) == val # Null /\ val.t = "number"

(* dataset.rows.map(row => row[col]) *)
columnValues(ds, col) == [i \in 1..Len(ds.rows) |-> Get(ds.rows[i], col)]

(* MUTANT of numericValues: only null is filtered out *)
numericValues_KeepsNonNumeric(ds, col) ==
    LET isNotNull(val) == val # Null
        kept == SelectSeq(columnValues(ds, col), isNotNull)
    IN  [i \in 1..Len(kept) |-> kept[i].n]

(* .filter(val => val !== null && typeof val === 'number') as number[] *)
numericValues(ds, col) ==
    LET nums == SelectSeq(columnValues(ds, col), isNumber)
    IN  [i \in 1..Len(nums) |-> nums[i].n]

----------------------------------------------------------------------------
(* Exact fractions <<num, den>>, den > 0, in lowest terms *)

RECURSIVE Gcd(_, _)
Gcd(a, b) == IF b = 0 THEN a ELSE Gcd(b, a % b)

Abs(x) == IF x < 0 THEN -x ELSE x

Sign(x) == IF x < 0 THEN -1 ELSE IF x > 0 THEN 1 ELSE 0

Rat(n, d) ==
    LET g == Gcd(Abs(n), Abs(d))
        s == IF d < 0 THEN -1 ELSE 1
    IN  <<(s * n) \div g, (s * d) \div g>>

RInt(k) == <<k, 1>>
RAdd(p, q) == Rat(p[1] * q[2] + q[1] * p[2], p[2] * q[2])
RSub(p, q) == Rat(p[1] * q[2] - q[1] * p[2], p[2] * q[2])
RMul(p, q) == Rat(p[1] * q[1], p[2] * q[2])
RDiv(p, q) == Rat(p[1] * q[2], p[2] * q[1])
RLess(p, q) == p[1] * q[2] < q[1] * p[2]
RLeq(p, q) == p[1] * q[2] <= q[1] * p[2]

(* Math.sqrt of a non-negative fraction, kept symbolically *)
Sqrt(q) == [sqrtOf |-> q]

----------------------------------------------------------------------------
(* simple-statistics *)

RECURSIVE SumSeq(_)
SumSeq(x) == IF Len(x) = 0 THEN 0 ELSE x[1] + SumSeq(Tail(x))

RECURSIVE RSumSeq(_)
RSumSeq(x) == IF Len(x) = 0 THEN RInt(0) ELSE RAdd(x[1], RSumSeq(Tail(x)))

ssMean(x) == Rat(SumSeq(x), Len(x))

sumNthPowerDeviations2(x) ==
    LET m == ssMean(x)
    IN  RSumSeq([i \in 1..Len(x) |-> RMul(RSub(RInt(x[i]), m), RSub(RInt(x[i]), m))])

ssVariance(x) == RDiv(sumNthPowerDeviations2(x), RInt(Len(x)))

ssStandardDeviation(x) ==
    IF Len(x) = 1 THEN Sqrt(RInt(0)) ELSE Sqrt(ssVariance(x))

ssSampleVariance(x) == RDiv(sumNthPowerDeviations2(x), RInt(Len(x) - 1))

ssSampleCovariance(x, y) ==
    LET xmean == ssMean(x)
        ymean == ssMean(y)
        s == RSumSeq([i \in 1..Len(x) |->
                 RMul(RSub(RInt(x[i]), xmean), RSub(RInt(y[i]), ymean))])
    IN  RDiv(s, RInt(Len(x) - 1))

RECURSIVE Insert(_, _)
Insert(v, s) ==
    IF Len(s) = 0 THEN <<v>>
    ELSE IF v <= s[1] THEN <<v>> \o s
    ELSE <<s[1]>> \o Insert(v, Tail(s))

RECURSIVE SortAsc(_)
SortAsc(x) == IF Len(x) = 0 THEN <<>> ELSE Insert(x[1], SortAsc(Tail(x)))

ssMin(x) == CHOOSE v \in Range(x) : \A w \in Range(x) : v <= w
ssMax(x) == CHOOSE v \in Range(x) : \A w \in Range(x) : v >= w

(* MUTANT of ssQuantileSorted: the index is counted from the other end *)
ssQuantileSorted_FromTop(x, p) ==
    LET idx == RMul(RInt(Len(x)), RSub(RInt(1), p))
    IN  IF idx[2] # 1
        THEN RInt(x[(idx[1] \div idx[2]) + 1])
        ELSE IF Len(x) % 2 = 0
        THEN Rat(x[idx[1]] + x[idx[1] + 1], 2)
        ELSE RInt(x[idx[1] + 1])

(* quantileSorted(x, p) for 0 < p < 1, p a fraction; x sorted, 1-based here *)
ssQuantileSorted(x, p) ==
    LET idx == RMul(RInt(Len(x)), p)
    IN  IF idx[2] # 1
        THEN RInt(x[(idx[1] \div idx[2]) + 1])
        ELSE IF Len(x) % 2 = 0
        THEN Rat(x[idx[1]] + x[idx[1] + 1], 2)
        ELSE RInt(x[idx[1] + 1])

ssQuantile(x, p) == ssQuantileSorted(SortAsc(x), p)

ssMedian(x) == ssQuantile(x, <<1, 2>>)

(* The quotient cov / xstd / ystd as a JavaScript number:                  *)
(*   kind "num": sgn * sqrt(sq);  "nan": NaN;  "inf": +-Infinity;          *)
(*   "throws": sampleCovariance and sampleVariance throw on samples of     *)
(*   unequal length or of fewer than two points                           *)
ssSampleCorrelation(x, y) ==
    LET cov == ssSampleCovariance(x, y)
        vx == ssSampleVariance(x)
        vy == ssSampleVariance(y)
    IN  IF Len(x) # Len(y) \/ Len(x) < 2
        THEN [kind |-> "throws", sgn |-> 0, sq |-> RInt(0)]
        ELSE IF vx[1] = 0
        THEN IF cov[1] = 0
             THEN [kind |-> "nan", sgn |-> 0, sq |-> RInt(0)]
             ELSE [kind |-> "inf", sgn |-> Sign(cov[1]), sq |-> RInt(0)]
        ELSE IF vy[1] = 0
        THEN IF cov[1] = 0
             THEN [kind |-> "nan", sgn |-> 0, sq |-> RInt(0)]
             ELSE [kind |-> "inf", sgn |-> Sign(cov[1]), sq |-> RInt(0)]
        ELSE [kind |-> "num", sgn |-> Sign(cov[1]),
              sq |-> RDiv(RMul(cov, cov), RMul(vx, vy))]

----------------------------------------------------------------------------
(* Results: a returned value or a thrown Error *)

Ok(v) == [ok |-> TRUE, err |-> "", val |-> v]
Err(e) == [ok |-> FALSE, err |-> e, val |-> <<>>]

(* a call: the operation and its arguments; bins = 0 stands for a call that *)
(* passes no bins argument                                                  *)
NoCall == [name |-> "none", c1 |-> "", c2 |-> "", bins |-> 0]
Call(name, c1, c2, bins) == [name |-> name, c1 |-> c1, c2 |-> c2, bins |-> bins]

----------------------------------------------------------------------------
(* JavaScript strings of values and the property order of plain objects *)

Digit == <<"0", "1", "2", "3", "4", "5", "6", "7", "8", "9">>

RECURSIVE NumStr(_)
NumStr(k) == IF k < 10 THEN Digit[k + 1] ELSE NumStr(k \div 10) \o Digit[(k % 10) + 1]

(* val?.toString() || '' *)
toStringOrEmpty(val) ==
    IF val.t = "number" THEN NumStr(val.n)
    ELSE IF val.t \in {"string", "boolean"} THEN val.s
    ELSE ""

DecimalKeys == 0..99

(* a key that is a canonical array index ("0", "1", ...) *)
IsIndexKey(key) == \E k \in DecimalKeys : NumStr(k) = key
IndexOfKey(key) == CHOOSE k \in DecimalKeys : NumStr(k) = key

(* MUTANT of FreqAdd: a repeated key is not counted again *)
FreqAdd_NoIncrement(freq, key) ==
    IF \E i \in 1..Len(freq) : freq[i].key = key
    THEN freq
    ELSE Append(freq, [key |-> key, count |-> 1])

(* frequency[key] = (frequency[key] || 0) + 1, keys kept in insertion order *)
FreqAdd(freq, key) ==
    IF \E i \in 1..Len(freq) : freq[i].key = key
    THEN [i \in 1..Len(freq) |->
            IF freq[i].key = key THEN [key |-> key, count |-> freq[i].count + 1]
            ELSE freq[i]]
    ELSE Append(freq, [key |-> key, count |-> 1])

RECURSIVE FreqFold(_, _)
FreqFold(values, freq) ==
    IF Len(values) = 0 THEN freq
    ELSE FreqFold(Tail(values), FreqAdd(freq, toStringOrEmpty(values[1])))

RECURSIVE InsertByIndex(_, _)
InsertByIndex(e, s) ==
    IF Len(s) = 0 THEN <<e>>
    ELSE IF IndexOfKey(e.key) <= IndexOfKey(s[1].key) THEN <<e>> \o s
    ELSE <<s[1]>> \o InsertByIndex(e, Tail(s))

RECURSIVE SortByIndex(_)
SortByIndex(s) == IF Len(s) = 0 THEN <<>> ELSE InsertByIndex(s[1], SortByIndex(Tail(s)))

(* MUTANT of ObjectEntries: every key in insertion order *)
ObjectEntries_InsertionOrder(freq) == freq

(* Object.entries / Object.keys / Object.values: array-index keys in       *)
(* ascending numeric order first, then the other keys in insertion order   *)
ObjectEntries(freq) ==
    LET isIdx(e) == IsIndexKey(e.key)
        notIdx(e) == ~IsIndexKey(e.key)
    IN  SortByIndex(SelectSeq(freq, isIdx)) \o SelectSeq(freq, notIdx)

notNull(val) == val # Null

(* Number(key) of a property key; NaN when the key is no decimal numeral *)
JsNumber(key) ==
    IF key = "" THEN Num(0)
    ELSE IF IsIndexKey(key) THEN Num(IndexOfKey(key))
    ELSE [t |-> "NaN", n |-> 0, s |-> ""]

----------------------------------------------------------------------------
(* DataAnalyzer.calculateDescriptiveStats *)

(* MUTANT of ModeOf: the mode is taken over the numeric values only *)
ModeOf_NumericOnly(ds, columnName) ==
    LET allValues == SelectSeq(columnValues(ds, columnName), isNumber)
        frequency == ObjectEntries(FreqFold(allValues, <<>>))
        maxFreq == CHOOSE c \in {frequency[i].count : i \in 1..Len(frequency)} :
                       \A i \in 1..Len(frequency) : frequency[i].count <= c
        isMax(e) == e.count = maxFreq
        modes == SelectSeq(frequency, isMax)
    IN  IF Len(modes) = 1
        THEN IF JsNumber(modes[1].key).t = "NaN" THEN Str(modes[1].key)
             ELSE JsNumber(modes[1].key)
        ELSE Str(modes[1].key)

ModeOf(ds, columnName) ==
    LET allValues == SelectSeq(columnValues(ds, columnName), notNull)
        frequency == ObjectEntries(FreqFold(allValues, <<>>))
        maxFreq == CHOOSE c \in {frequency[i].count : i \in 1..Len(frequency)} :
                       \A i \in 1..Len(frequency) : frequency[i].count <= c
        isMax(e) == e.count = maxFreq
        modes == SelectSeq(frequency, isMax)
    IN  IF Len(modes) = 1
        THEN IF JsNumber(modes[1].key).t = "NaN" THEN Str(modes[1].key)
             ELSE JsNumber(modes[1].key)
        ELSE Str(modes[1].key)

calculateDescriptiveStats(ds, columnName) ==
    LET values == numericValues(ds, columnName)
        sortedValues == SortAsc(values)
    IN  IF Len(values) = 0 THEN Err("NoNumericValues")
        ELSE Ok([column |-> columnName,
                 count |-> Len(values),
                 mean |-> ssMean(values),
                 median |-> ssMedian(values),
                 standardDeviation |-> ssStandardDeviation(values),
                 variance |-> ssVariance(values),
                 min |-> ssMin(values),
                 max |-> ssMax(values),
                 quartiles |-> [q1 |-> ssQuantile(sortedValues, <<1, 4>>),
                                q2 |-> ssQuantile(sortedValues, <<1, 2>>),
                                q3 |-> ssQuantile(sortedValues, <<3, 4>>)],
                 mode |-> ModeOf(ds, columnName)])

----------------------------------------------------------------------------
(* DataAnalyzer.calculateCorrelation *)

bothNumeric(ds, column1, column2) ==
    LET keep(row) == isNumber(Get(row, column1)) /\ isNumber(Get(row, column2))
    IN  SelectSeq(ds.rows, keep)

(* MUTANT of pairsOf: the two columns filtered independently, then zipped *)
pairsOf_Unaligned(ds, column1, column2) ==
    LET values1 == numericValues(ds, column1)
        values2 == numericValues(ds, column2)
        n == IF Len(values1) < Len(values2) THEN Len(values1) ELSE Len(values2)
    IN  [i \in 1..n |-> <<values1[i], values2[i]>>]

(* the pairs [val1, val2] pushed in row order *)
pairsOf(ds, column1, column2) ==
    LET kept == bothNumeric(ds, column1, column2)
    IN  [i \in 1..Len(kept) |-> <<Get(kept[i], column1).n, Get(kept[i], column2).n>>]

(* MUTANT of AbsAboveHalf: >= in place of > *)
AbsAboveHalf_Inclusive(c) ==
    \/ c.kind = "inf"
    \/ c.kind = "num" /\ RLeq(<<1, 4>>, c.sq)

(* Math.abs(coefficient) > 0.5 *)
AbsAboveHalf(c) ==
    \/ c.kind = "inf"
    \/ c.kind = "num" /\ RLess(<<1, 4>>, c.sq)

(* MUTANT of tooFewPairs: a single pair is let through *)
tooFewPairs_One(pairs) == Len(pairs) < 1

(* pairs.length < 2 *)
tooFewPairs(pairs) == Len(pairs) < 2

calculateCorrelation(ds, column1, column2) ==
    LET values1 == numericValues(ds, column1)
        values2 == numericValues(ds, column2)
        pairs == pairsOf(ds, column1, column2)
        coefficient == ssSampleCorrelation([i \in 1..Len(pairs) |-> pairs[i][1]],
                                           [i \in 1..Len(pairs) |-> pairs[i][2]])
    IN  IF Len(values1) = 0 \/ Len(values2) = 0 THEN Err("NoNumericValues")
        ELSE IF tooFewPairs(pairs) THEN Err("InsufficientData")
        ELSE IF coefficient.kind = "throws" THEN Err("LibraryError")
        ELSE Ok([variable1 |-> column1,
                 variable2 |-> column2,
                 coefficient |-> coefficient,
                 significance |-> IF AbsAboveHalf(coefficient) THEN "significant"
                                  ELSE "not_significant"])

----------------------------------------------------------------------------
(* DataAnalyzer.calculateCorrelationMatrix *)

NullCell == [kind |-> "null", sgn |-> 0, sq |-> RInt(0)]

hasNumeric(ds, col) == Len(numericValues(ds, col)) > 0

numericColumnsOf(ds) ==
    LET keep(col) == hasNumeric(ds, col)
    IN  SelectSeq(ds.columns, keep)

(* m[c1][c2] = v where m[c1] exists *)
Put(m, c1, c2, v) ==
    [k \in DOMAIN m |->
        IF k = c1
        THEN [k2 \in DOMAIN m[k] \cup {c2} |-> IF k2 = c2 THEN v ELSE m[k][k2]]
        ELSE m[k]]

(* m[c1] = {} *)
NewRow(m, c1) == [k \in DOMAIN m \cup {c1} |-> IF k = c1 THEN <<>> ELSE m[k]]

(* The writes of one pass of the try/catch body for the pair (column1,      *)
(* column2), r being what calculateCorrelation gave.  Writing              *)
(* m[column2][column1] when m[column2] does not exist throws a TypeError;   *)
(* thrown in the try block it is caught, thrown in the catch block it      *)
(* leaves the function.                                                    *)
cellWrites(m, column1, column2, r) ==
    LET tried == Put(m, column1, column2, r.val.coefficient)
        caught == Put(IF r.ok THEN tried ELSE m, column1, column2, NullCell)
    IN  IF r.ok /\ column2 \in DOMAIN tried
        THEN [m |-> Put(tried, column2, column1, r.val.coefficient), threw |-> FALSE]
        ELSE IF column2 \in DOMAIN caught
        THEN [m |-> Put(caught, column2, column1, NullCell), threw |-> FALSE]
        ELSE [m |-> caught, threw |-> TRUE]

(* one pass of the try/catch body *)
matrixCell(ds, m, column1, column2) ==
    cellWrites(m, column1, column2, calculateCorrelation(ds, column1, column2))

RECURSIVE matrixInner(_, _, _, _, _)

(* after the pair (cols[i], cols[j]): leave on a throw, else go on with j + 1 *)
innerNext(ds, cols, i, j, step) ==
    IF step.threw THEN step ELSE matrixInner(ds, cols, i, j + 1, step.m)

matrixInner(ds, cols, i, j, m) ==
    IF j > Len(cols) THEN [m |-> m, threw |-> FALSE]
    ELSE innerNext(ds, cols, i, j, matrixCell(ds, m, cols[i], cols[j]))

RECURSIVE matrixOuter(_, _, _, _)

(* after the row of cols[i]: leave on a throw, else go on with i + 1 *)
outerNext(ds, cols, i, row) ==
    IF row.threw THEN row ELSE matrixOuter(ds, cols, i + 1, row.m)

matrixOuter(ds, cols, i, m) ==
    IF i > Len(cols) THEN [m |-> m, threw |-> FALSE]
    ELSE outerNext(ds, cols, i, matrixInner(ds, cols, i, i, NewRow(m, cols[i])))

calculateCorrelationMatrix(ds) ==
    LET run == matrixOuter(ds, numericColumnsOf(ds), 1, <<>>)
    IN  IF run.threw THEN Err("TypeError") ELSE Ok(run.m)

----------------------------------------------------------------------------
(* DataAnalyzer.generateFrequencyDistribution *)

(* Array.prototype.sort((a, b) => b.count - a.count): stable, count descending *)
RECURSIVE InsertByCount(_, _)
InsertByCount(e, s) ==
    IF Len(s) = 0 THEN <<e>>
    ELSE IF e.count >= s[1].count THEN <<e>> \o s
    ELSE <<s[1]>> \o InsertByCount(e, Tail(s))

RECURSIVE SortByCountDesc(_)
SortByCountDesc(s) ==
    IF Len(s) = 0 THEN <<>> ELSE InsertByCount(s[1], SortByCountDesc(Tail(s)))

generateFrequencyDistribution(ds, columnName) ==
    LET values == SelectSeq(columnValues(ds, columnName), notNull)
        frequency == ObjectEntries(FreqFold(values, <<>>))
        data == SortByCountDesc([i \in 1..Len(frequency) |->
                    [value |-> frequency[i].key, count |-> frequency[i].count]])
    IN  Ok([type |-> "descriptive",
            data |-> frequency,
            visualization |-> [type |-> "bar", xAxis |-> "value", yAxis |-> "count",
                               data |-> data]])

----------------------------------------------------------------------------
(* IEEE-754 binary64 arithmetic on the non-negative numbers the histogram  *)
(* computes.  A double is held exactly as a natural X meaning X / 2^FracBits; *)
(* every double that occurs is 0 or at least 2^-11 (bins < 2^11, integer   *)
(* data), so it is a multiple of 2^-FracBits.  X is a little-endian        *)
(* sequence of Limbs digits in base Base.                                  *)

MantissaBits == 53
FracBits == MantissaBits + 11
LimbBits == 15
Base == 2^LimbBits
Limbs == 6

BigZero == [i \in 1..Limbs |-> 0]
BigOfInt(k) == [i \in 1..Limbs |-> IF i = 1 THEN k % Base ELSE IF i = 2 THEN k \div Base ELSE 0]

Limb(X, i) == IF i \in 1..Limbs THEN X[i] ELSE 0

BigMulSmall(X, k) ==
    LET c[i \in 0..Limbs] == IF i = 0 THEN 0 ELSE (X[i] * k + c[i - 1]) \div Base
    IN  [i \in 1..Limbs |-> (X[i] * k + c[i - 1]) % Base]

BigAdd(X, Y) ==
    LET c[i \in 0..Limbs] == IF i = 0 THEN 0 ELSE (X[i] + Y[i] + c[i - 1]) \div Base
    IN  [i \in 1..Limbs |-> (X[i] + Y[i] + c[i - 1]) % Base]

(* quotient and remainder of X by a small n *)
BigDivSmall(X, n) ==
    LET r[i \in 1..(Limbs + 1)] ==
            IF i = Limbs + 1 THEN 0 ELSE (r[i + 1] * Base + X[i]) % n
    IN  [quot |-> [i \in 1..Limbs |-> (r[i + 1] * Base + X[i]) \div n], rem |-> r[1]]

BigShiftLeft(X, s) ==
    LET q == s \div LimbBits
        r == s % LimbBits
    IN  [i \in 1..Limbs |->
            (Limb(X, i - q) % 2^(LimbBits - r)) * 2^r
            + (Limb(X, i - q - 1) \div 2^(LimbBits - r))]

BigShiftRight(X, s) ==
    LET q == s \div LimbBits
        r == s % LimbBits
    IN  [i \in 1..Limbs |->
            (Limb(X, i + q) \div 2^r) + (Limb(X, i + q + 1) % 2^r) * 2^(LimbBits - r)]

BigLess(X, Y) ==
    \E i \in 1..Limbs : X[i] < Y[i] /\ \A j \in (i + 1)..Limbs : X[j] = Y[j]

BigLeq(X, Y) == X = Y \/ BigLess(X, Y)

BitLength(X) ==
    IF X = BigZero THEN 0
    ELSE LET top == CHOOSE i \in 1..Limbs : X[i] # 0 /\ \A j \in (i + 1)..Limbs : X[j] = 0
             b == CHOOSE k \in 1..LimbBits : 2^(k - 1) <= X[top] /\ X[top] < 2^k
         IN  (top - 1) * LimbBits + b

(* round to MantissaBits significant bits, nearest, ties to even; sticky   *)
(* says that the exact value lies strictly above X                         *)
RoundToDouble(X, sticky) ==
    LET s == BitLength(X) - MantissaBits
        q == BigShiftRight(X, s)
        kept == BigShiftLeft(q, s)
        half == BigShiftLeft(BigOfInt(1), s - 1)
        above == BigAdd(kept, half)
        up == \/ BigLess(above, X)
              \/ above = X /\ (sticky \/ q[1] % 2 = 1)
    IN  IF s <= 0 THEN X
        ELSE IF up THEN BigShiftLeft(BigAdd(q, BigOfInt(1)), s)
        ELSE kept

FOfInt(k) == BigShiftLeft(BigOfInt(k), FracBits)

(* a / n for naturals a, n > 0 *)
FDivInt(a, n) ==
    LET d == BigDivSmall(FOfInt(a), n)
    IN  RoundToDouble(d.quot, d.rem # 0)

(* k * x for a natural k *)
FMulInt(k, x) == RoundToDouble(BigMulSmall(x, k), FALSE)

(* a + x for a natural a *)
FAddInt(a, x) == RoundToDouble(BigAdd(FOfInt(a), x), FALSE)

(* Number.prototype.toFixed(2): the nearest hundredth, the larger on a tie *)
toFixed2(x) ==
    LET h == BigShiftRight(BigAdd(BigMulSmall(x, 200), BigShiftLeft(BigOfInt(1), FracBits)),
                           FracBits + 1)
        n == h[1] + h[2] * Base
    IN  NumStr(n \div 100) \o "." \o Digit[((n \div 10) % 10) + 1] \o Digit[(n % 10) + 1]

----------------------------------------------------------------------------
(* DataAnalyzer.generateHistogram *)

DefaultBins == 10

(* MUTANT of histogramBin: the last bin is half-open like the others *)
histogramBin_HalfOpen(values, min, binWidth, bins, i) ==
    LET binStart == FAddInt(min, FMulInt(i, binWidth))
        binEnd == FAddInt(min, FMulInt(i + 1, binWidth))
        inBin(val) == /\ BigLeq(binStart, FOfInt(val))
                      /\ BigLess(FOfInt(val), binEnd)
    IN  [range |-> toFixed2(binStart) \o "-" \o toFixed2(binEnd),
         count |-> Len(SelectSeq(values, inBin))]

histogramBin(values, min, binWidth, bins, i) ==
    LET binStart == FAddInt(min, FMulInt(i, binWidth))
        binEnd == FAddInt(min, FMulInt(i + 1, binWidth))
        inBin(val) == /\ BigLeq(binStart, FOfInt(val))
                      /\ IF i = bins - 1 THEN BigLeq(FOfInt(val), binEnd)
                         ELSE BigLess(FOfInt(val), binEnd)
    IN  [range |-> toFixed2(binStart) \o "-" \o toFixed2(binEnd),
         count |-> Len(SelectSeq(values, inBin))]

generateHistogram(ds, columnName, bins) ==
    LET values == numericValues(ds, columnName)
        min == ssMin(values)
        max == ssMax(values)
        binWidth == FDivInt(max - min, bins)
        histogram == [k \in 1..bins |-> histogramBin(values, min, binWidth, bins, k - 1)]
    IN  IF Len(values) = 0 THEN Err("NoNumericValues")
        ELSE Ok([type |-> "descriptive",
                 data |-> histogram,
                 visualization |-> [type |-> "histogram", xAxis |-> "range",
                                    yAxis |-> "count", data |-> histogram]])

----------------------------------------------------------------------------
(* DataAnalyzer.generateScatterPlot *)

(* MUTANT of scatterKeeps: only the x value is tested *)
scatterKeeps_XOnly(row, xColumn, yColumn) ==
    LET xVal == Get(row, xColumn)
    IN  xVal # Null /\ xVal.t = "number"

(* xVal !== null && yVal !== null && both typeof 'number' *)
scatterKeeps(row, xColumn, yColumn) ==
    LET xVal == Get(row, xColumn)
        yVal == Get(row, yColumn)
    IN  xVal # Null /\ yVal # Null /\ xVal.t = "number" /\ yVal.t = "number"

(* dataset.rows.forEach: data.push({x: xVal, y: yVal}) for the rows kept *)
RECURSIVE scatterData(_, _, _)
scatterData(rows, xColumn, yColumn) ==
    IF Len(rows) = 0 THEN <<>>
    ELSE (IF scatterKeeps(rows[1], xColumn, yColumn)
          THEN <<[x |-> Get(rows[1], xColumn).n, y |-> Get(rows[1], yColumn).n]>>
          ELSE <<>>) \o scatterData(Tail(rows), xColumn, yColumn)

generateScatterPlot(ds, xColumn, yColumn) ==
    LET data == scatterData(ds.rows, xColumn, yColumn)
    IN  IF Len(data) = 0 THEN Err("NoValidPairs")
        ELSE Ok([type |-> "correlation",
                 data |-> data,
                 visualization |-> [type |-> "scatter", xAxis |-> xColumn,
                                    yAxis |-> yColumn, data |-> data]])

----------------------------------------------------------------------------
(* Kaplan-Meier: DataAnalyzer.calculateKaplanMeier, its endpoint and the   *)
(* dispatch of an AI query.  compute() is the packaged estimator           *)
(* (@fullstax/kaplan-meier-estimator), whose code is not in the            *)
(* repository: it is modelled as section 4.5 of the specification states   *)
(* the estimator.                                                          *)

isBoolean(val) == val # Null /\ val.t = "boolean"

(* .filter(val => val !== null && typeof val === 'boolean') as boolean[] *)
booleanValues(ds, col) ==
    LET kept == SelectSeq(columnValues(ds, col), isBoolean)
    IN  [i \in 1..Len(kept) |-> kept[i].s = "true"]

(* the distinct values of an ascending sequence *)
RECURSIVE Distinct(_)
Distinct(x) ==
    IF Len(x) <= 1 THEN x
    ELSE IF x[1] = x[2] THEN Distinct(Tail(x))
    ELSE <<x[1]>> \o Distinct(Tail(x))

(* MUTANT of riskSet: subjects that left earlier are still counted *)
riskSet_Everyone(timeToEvent, t) == Len(timeToEvent)

(* n: the subjects with time >= t *)
riskSet(timeToEvent, t) ==
    Cardinality({i \in 1..Len(timeToEvent) : timeToEvent[i] >= t})

(* d: the events at exactly t *)
eventsAt(timeToEvent, eventOccurred, t) ==
    Cardinality({i \in 1..Len(timeToEvent) : timeToEvent[i] = t /\ eventOccurred[i]})

(* MUTANT of survivalFactor: the step goes up *)
survivalFactor_Up(timeToEvent, eventOccurred, t) ==
    RAdd(RInt(1), Rat(eventsAt(timeToEvent, eventOccurred, t), riskSet(timeToEvent, t)))

(* 1 - d/n *)
survivalFactor(timeToEvent, eventOccurred, t) ==
    RSub(RInt(1), Rat(eventsAt(timeToEvent, eventOccurred, t), riskSet(timeToEvent, t)))

(* S after the k-th distinct time: S = 1 before the first *)
RECURSIVE survivalAfter(_, _, _, _)
survivalAfter(timeToEvent, eventOccurred, ts, k) ==
    IF k = 0 THEN RInt(1)
    ELSE RMul(survivalAfter(timeToEvent, eventOccurred, ts, k - 1),
              survivalFactor(timeToEvent, eventOccurred, ts[k]))

lengthsDiffer(timeToEvent, eventOccurred) == Len(timeToEvent) # Len(eventOccurred)

compute(timeToEvent, eventOccurred) ==
    LET ts == Distinct(SortAsc(timeToEvent))
    IN  IF lengthsDiffer(timeToEvent, eventOccurred) THEN Err("MismatchedLength")
        ELSE Ok([k \in 1..Len(ts) |->
                    [time |-> ts[k],
                     survival |-> survivalAfter(timeToEvent, eventOccurred, ts, k)]])

calculateKaplanMeier(timeToEvent, eventOccurred) == compute(timeToEvent, eventOccurred)

(* validator.validateColumnName *)
validateColumnName(columnName, availableColumns) == columnName \in Range(availableColumns)

(* MUTANT of endpointLengthsDiffer: the endpoint does not compare lengths *)
endpointLengthsDiffer_Never(timeToEvent, eventOccurred) == FALSE

(* timeToEvent.length !== eventOccurred.length *)
endpointLengthsDiffer(timeToEvent, eventOccurred) ==
    Len(timeToEvent) # Len(eventOccurred)

(* POST /kaplan-meier/:datasetId; a thrown Error is answered with status 500 *)
kaplanMeierEndpoint(ds, timeColumn, eventColumn) ==
    LET timeToEvent == numericValues(ds, timeColumn)
        eventOccurred == booleanValues(ds, eventColumn)
        run == calculateKaplanMeier(timeToEvent, eventOccurred)
    IN  IF ~validateColumnName(timeColumn, ds.columns) THEN Err("400 ColumnNotFound")
        ELSE IF ~validateColumnName(eventColumn, ds.columns) THEN Err("400 ColumnNotFound")
        ELSE IF endpointLengthsDiffer(timeToEvent, eventOccurred)
        THEN Err("400 SameNumberOfEntries")
        ELSE IF run.ok THEN run ELSE Err("500 " \o run.err)

(* GeminiService.performAnalysis, case 'kaplan-meier' with two columns; a   *)
(* thrown Error is returned as {error: ...}                                *)
kaplanMeierDispatch(ds, columns) ==
    LET timeToEvent == numericValues(ds, columns[1])
        eventOccurred == booleanValues(ds, columns[2])
        run == calculateKaplanMeier(timeToEvent, eventOccurred)
    IN  IF run.ok THEN run ELSE Err("Error performing analysis: " \o run.err)

----------------------------------------------------------------------------
(* DataAnalyzer.performIndependentTTest *)

(* ss.tTestTwoSample(x, y): (mean(x) - mean(y)) divided by the square root *)
(* of the pooled sample variance times (1/n + 1/m); null for an empty      *)
(* sample.  The value t is held as its sign and its square.                *)
ssTTestTwoSample(x, y) ==
    LET n == Len(x)
        m == Len(y)
        diff == RSub(ssMean(x), ssMean(y))
        weightedVariance ==
            RDiv(RAdd(RMul(RInt(n - 1), ssSampleVariance(x)),
                      RMul(RInt(m - 1), ssSampleVariance(y))),
                 RInt(n + m - 2))
        under == RMul(weightedVariance, RAdd(Rat(1, n), Rat(1, m)))
    IN  IF n = 0 \/ m = 0 THEN [kind |-> "null", sgn |-> 0, sq |-> RInt(0)]
        ELSE IF n < 2 \/ m < 2 THEN [kind |-> "throws", sgn |-> 0, sq |-> RInt(0)]
        ELSE IF under[1] = 0
        THEN IF diff[1] = 0
             THEN [kind |-> "nan", sgn |-> 0, sq |-> RInt(0)]
             ELSE [kind |-> "inf", sgn |-> Sign(diff[1]), sq |-> RInt(0)]
        ELSE [kind |-> "num", sgn |-> Sign(diff[1]),
              sq |-> RDiv(RMul(diff, diff), under)]

(* String(groupValue) *)
StringOf(val) ==
    IF val.t = "number" THEN NumStr(val.n)
    ELSE IF val.t \in {"string", "boolean"} THEN val.s
    ELSE val.t

(* typeof val === 'number' && isFinite(val) *)
isFiniteNumber(val) == val.t = "number"

(* .filter(val => typeof val === 'number' && val !== null && isFinite(val)) *)
finiteValues(ds, col) ==
    LET nums == SelectSeq(columnValues(ds, col), isFiniteNumber)
    IN  [i \in 1..Len(nums) |-> nums[i].n]

(* MUTANT of rowHasGroupAndValue: the value is not tested *)
rowHasGroupAndValue_AnyValue(groupValue, numericValue) ==
    groupValue # Null /\ groupValue # Undefined

(* groupValue !== null && groupValue !== undefined &&                       *)
(* typeof numericValue === 'number' && isFinite(numericValue)               *)
rowHasGroupAndValue(groupValue, numericValue) ==
    /\ groupValue # Null
    /\ groupValue # Undefined
    /\ isFiniteNumber(numericValue)

(* groups[groupKey].push(numericValue), a new group starting empty *)
GroupPush(groups, groupKey, v) ==
    IF \E i \in 1..Len(groups) : groups[i].key = groupKey
    THEN [i \in 1..Len(groups) |->
            IF groups[i].key = groupKey
            THEN [key |-> groupKey, values |-> Append(groups[i].values, v)]
            ELSE groups[i]]
    ELSE Append(groups, [key |-> groupKey, values |-> <<v>>])

groupStep(groups, groupValue, numericValue) ==
    IF rowHasGroupAndValue(groupValue, numericValue)
    THEN GroupPush(groups, StringOf(groupValue), numericValue.n)
    ELSE groups

(* dataset.rows.forEach(row => ...) *)
RECURSIVE groupRows(_, _, _, _)
groupRows(rows, groupColumnName, valueColumnName, groups) ==
    IF Len(rows) = 0 THEN groups
    ELSE groupRows(Tail(rows), groupColumnName, valueColumnName,
                   groupStep(groups, Get(rows[1], groupColumnName),
                             Get(rows[1], valueColumnName)))

(* groupKeys.length !== 2 *)
wrongGroupCount(groupKeys) == Len(groupKeys) # 2

(* MUTANT of tooFewObservations: only the first sample is tested *)
tooFewObservations_FirstOnly(sample1, sample2) == Len(sample1) < 2

(* sample1.length < 2 || sample2.length < 2 *)
tooFewObservations(sample1, sample2) == Len(sample1) < 2 \/ Len(sample2) < 2

(* MUTANT of tStatisticOf: the samples are passed in the other order *)
tStatisticOf_Reversed(sample1, sample2) == ssTTestTwoSample(sample2, sample1)

(* const tStatistic = ss.tTestTwoSample(sample1, sample2) *)
tStatisticOf(sample1, sample2) == ssTTestTwoSample(sample1, sample2)

(* MUTANT of notFinite: only a missing statistic is refused *)
notFinite_NullOnly(tStatistic) == tStatistic.kind = "null"

(* tStatistic === null || !isFinite(tStatistic) *)
notFinite(tStatistic) == tStatistic.kind # "num"

tTestResult(groups) ==
    LET sample1 == groups[1].values
        sample2 == groups[2].values
        tStatistic == tStatisticOf(sample1, sample2)
    IN  IF tooFewObservations(sample1, sample2) THEN Err("InsufficientData")
        ELSE IF notFinite(tStatistic) THEN Err("NoTStatistic")
        ELSE Ok([testType |-> "Independent Samples T-Test",
                 group1Name |-> groups[1].key,
                 group2Name |-> groups[2].key,
                 group1Mean |-> ssMean(sample1),
                 group2Mean |-> ssMean(sample2),
                 group1Variance |-> ssVariance(sample1),
                 group2Variance |-> ssVariance(sample2),
                 group1Size |-> Len(sample1),
                 group2Size |-> Len(sample2),
                 tStatistic |-> tStatistic,
                 degreesOfFreedom |-> Len(sample1) + Len(sample2) - 2])

performIndependentTTest(ds, groupColumnName, valueColumnName) ==
    LET valueData == finiteValues(ds, valueColumnName)
        groups == ObjectEntries(groupRows(ds.rows, groupColumnName, valueColumnName, <<>>))
    IN  IF groupColumnName \notin Range(ds.columns) THEN Err("GroupColumnNotFound")
        ELSE IF valueColumnName \notin Range(ds.columns) THEN Err("ValueColumnNotFound")
        ELSE IF Len(valueData) = 0 THEN Err("NoNumericData")
        ELSE IF wrongGroupCount(groups) THEN Err("GroupCount")
        ELSE tTestResult(groups)

----------------------------------------------------------------------------
(* DataAnalyzer.getSummaryStatistics *)

(* values.length > 0 && typeof values[0] === 'number', values the non-null *)
(* entries of the column                                                   *)
firstValueIsNumber(ds, col) ==
    LET values == SelectSeq(columnValues(ds, col), notNull)
    IN  Len(values) > 0 /\ values[1].t = "number"

summaryColumnsOf(ds) ==
    LET keep(col) == firstValueIsNumber(ds, col)
    IN  SelectSeq(ds.columns, keep)

getSummaryStatistics(ds) ==
    LET numericColumns == summaryColumnsOf(ds)
        summary == [i \in 1..Len(numericColumns) |->
                       calculateDescriptiveStats(ds, numericColumns[i])]
    IN  IF \E i \in 1..Len(summary) : ~summary[i].ok
        THEN summary[CHOOSE i \in 1..Len(summary) :
                        /\ ~summary[i].ok
                        /\ \A j \in 1..(i - 1) : summary[j].ok]
        ELSE Ok([type |-> "descriptive",
                 data |-> [i \in 1..Len(summary) |-> summary[i].val]])

----------------------------------------------------------------------------
(* GeminiService.performChiSquaredWithPostHoc, up to the call of the        *)
(* chi-squared test: the contingency table and the observed matrix handed  *)
(* to the test.  Objects are sequences of entries in insertion order.      *)

(* Array.prototype.join writes null and undefined as the empty string *)
joinItem(val) == IF val = Null \/ val = Undefined THEN "" ELSE StringOf(val)

RECURSIVE joinWith(_, _)
joinWith(items, sep) ==
    IF Len(items) = 0 THEN ""
    ELSE IF Len(items) = 1 THEN joinItem(items[1])
    ELSE joinItem(items[1]) \o sep \o joinWith(Tail(items), sep)

(* otherColumns.map(col => row[col]).join('-') *)
contingencyKey(row, otherColumns) ==
    joinWith([i \in 1..Len(otherColumns) |-> Get(row, otherColumns[i])], "-")

(* MUTANT of targetMissing: no row is skipped *)
targetMissing_Never(val) == FALSE

(* hospitalizationStatus === null || hospitalizationStatus === undefined *)
targetMissing(val) == val = Null \/ val = Undefined

(* the table after one more row with a target value *)
tableAdd(table, key, status) ==
    IF \E i \in 1..Len(table) : table[i].key = key
    THEN [i \in 1..Len(table) |->
            IF table[i].key = key
            THEN [key |-> key, cells |-> FreqAdd(table[i].cells, status)]
            ELSE table[i]]
    ELSE Append(table, [key |-> key, cells |-> <<[key |-> status, count |-> 1]>>])

tableStep(table, row, targetColumn, otherColumns) ==
    IF targetMissing(Get(row, targetColumn)) THEN table
    ELSE tableAdd(table, contingencyKey(row, otherColumns),
                  StringOf(Get(row, targetColumn)))

RECURSIVE tableFold(_, _, _, _)
tableFold(rows, table, targetColumn, otherColumns) ==
    IF Len(rows) = 0 THEN table
    ELSE tableFold(Tail(rows), tableStep(table, rows[1], targetColumn, otherColumns),
                   targetColumn, otherColumns)

(* Object.values(row).map(Number) *)
observedRow(cells) ==
    LET values == ObjectEntries(cells)
    IN  [j \in 1..Len(values) |-> values[j].count]

(* Object.values(contingencyTable).map(row => Object.values(row).map(Number)) *)
observedOf(table) ==
    LET values == ObjectEntries(table)
    IN  [i \in 1..Len(values) |-> observedRow(values[i].cells)]

performChiSquaredWithPostHoc(ds, columns) ==
    LET hospitalizationColumn == columns[1]
        otherColumns == Tail(columns)
        contingencyTable == tableFold(ds.rows, <<>>, hospitalizationColumn, otherColumns)
    IN  Ok([contingencyTable |-> contingencyTable,
            observed |-> observedOf(contingencyTable)])

----------------------------------------------------------------------------
(* Inputs *)

Cells == {Null, Str("x"), Str("1"), Str("")} \cup {Num(k) : k \in 1..MaxVal}

(* cells of the two-column inputs of the correlations: two levels per      *)
(* column, and a string in the second column only                          *)
PairCells == {Null, Num(1), Num(2)}

PairCellsWithString == PairCells \cup {Str("x")}

PairRow == {[c \in {"a", "b"} |-> IF c = "a" THEN x ELSE y] :
               x \in PairCells, y \in PairCellsWithString}

(* cells of the single-column inputs of the frequency distribution *)
FreqCells == {Null, Str("x"), Str("1"), Bool(TRUE)} \cup {Num(k) : k \in 1..MaxVal}

(* cells of the single-column inputs of the histogram *)
HistCells == {Null, Str("x")} \cup {Num(k) : k \in 0..MaxVal}

(* bin counts a caller passes; 0: none passed *)
BinArgs == (0..MaxBins) \cup {DefaultBins, ManyBins}

(* a dataset given column by column *)
FromColumns(cols, data) ==
    [columns |-> cols,
     rows |-> [i \in 1..Len(data[1]) |->
                  [c \in Range(cols) |->
                      data[CHOOSE j \in 1..Len(cols) : cols[j] = c][i]]]]

NumColumn(x) == [i \in 1..Len(x) |-> Num(x[i])]

ScenarioA == FromColumns(<<"a">>, <<NumColumn(<<1, 2, 3, 4, 5>>)>>)
ScenarioB == FromColumns(<<"a">>, <<NumColumn(<<0, 10>>)>>)
ScenarioC == FromColumns(<<"a", "b">>, <<NumColumn(<<1, 2, 3>>), NumColumn(<<1, 2, 3>>)>>)
HalfCorrelated == FromColumns(<<"a", "b">>, <<NumColumn(<<1, 2, 3>>), NumColumn(<<1, 3, 2>>)>>)

Scenarios == {ScenarioA, ScenarioB, ScenarioC, HalfCorrelated}

TwoColumnInputs ==
    {[columns |-> <<"a", "b">>, rows |-> r] : r \in SeqsUpTo(PairRow, MaxRows)}
        \cup Scenarios

(* two strings tied for the highest frequency, beside one number *)
TiedStrings == FromColumns(<<"a">>, <<<<Str("y"), Str("x"), Num(1), Str("x"), Str("y")>>>>)

DescriptiveInputs == Dataset(<<"a">>, Cells, MaxRows) \cup Scenarios \cup {TiedStrings}

FrequencyInputs == Dataset(<<"a">>, FreqCells, MaxRows) \cup Scenarios

(* the histogram is the costly operation: its inputs are one row shorter *)
HistogramInputs == Dataset(<<"a">>, HistCells, MaxRows - 1) \cup Scenarios

(* survival data: a time column and an event column *)
TimeCells == {Null} \cup {Num(k) : k \in 1..MaxVal}

EventCells == {Null, Bool(TRUE), Bool(FALSE)}

SurvivalRow == {[c \in {"t", "e"} |-> IF c = "t" THEN x ELSE y] :
                   x \in TimeCells, y \in EventCells}

ScenarioD == FromColumns(<<"t", "e">>,
                         <<NumColumn(<<5, 10>>), <<Bool(TRUE), Bool(FALSE)>>>>)

(* an event, a censoring, an event *)
CensoredBetween == FromColumns(<<"t", "e">>,
                               <<NumColumn(<<1, 2, 3>>),
                                 <<Bool(TRUE), Bool(FALSE), Bool(TRUE)>>>>)

SurvivalInputs ==
    {[columns |-> <<"t", "e">>, rows |-> r] : r \in SeqsUpTo(SurvivalRow, MaxRows)}
        \cup {ScenarioD, CensoredBetween}

(* t-test data: a group column "g" and a value column "v" *)
GroupRow(groupCells) == {[c \in {"g", "v"} |-> IF c = "g" THEN x ELSE y] :
                            x \in groupCells, y \in PairCells}

(* rows with a null group or a third group; the value is null or 1 *)
SparseGroupRow == {[c \in {"g", "v"} |-> IF c = "g" THEN x ELSE y] :
                      x \in {Null, Str("A"), Str("B"), Str("C")}, y \in {Null, Num(1)}}

StrColumn(x) == [i \in 1..Len(x) |-> Str(x[i])]

(* groups A: [1,2,3] and B: [4,5,6] *)
ScenarioE == FromColumns(<<"g", "v">>,
                         <<StrColumn(<<"A", "A", "A", "B", "B", "B">>),
                           NumColumn(<<1, 2, 3, 4, 5, 6>>)>>)

(* the same samples, the rows of B first *)
ScenarioEReordered == FromColumns(<<"g", "v">>,
                                  <<StrColumn(<<"B", "B", "B", "A", "A", "A">>),
                                    NumColumn(<<4, 5, 6, 1, 2, 3>>)>>)

(* three group values, the third without a number in the value column *)
ThreeGroupsOneEmpty == FromColumns(<<"g", "v">>,
                                   <<StrColumn(<<"A", "A", "B", "B", "C">>),
                                     NumColumn(<<1, 2, 2, 4>>) \o <<Null>>>>)

(* group values that are numbers: the keys "1" and "2" *)
NumericGroups == FromColumns(<<"g", "v">>,
                             <<NumColumn(<<2, 2, 1, 1>>), NumColumn(<<1, 2, 2, 4>>)>>)

(* the number 1 and the string "1" are one group *)
MixedKeys == FromColumns(<<"g", "v">>,
                         <<<<Num(1), Str("1"), Str("A"), Str("A")>>,
                           NumColumn(<<1, 2, 2, 4>>)>>)

TTestScenarios ==
    {ScenarioE, ScenarioEReordered, ThreeGroupsOneEmpty, NumericGroups, MixedKeys}

TTestInputs ==
    {[columns |-> <<"g", "v">>, rows |-> r] :
        r \in SeqsUpTo(GroupRow({Str("A"), Str("B")}), MaxRows + 1)}
    \cup {[columns |-> <<"g", "v">>, rows |-> r] :
        r \in SeqsUpTo(SparseGroupRow, MaxRows)}
    \cup TTestScenarios

(* datasets every operation of the engine is called on: short two-column   *)
(* datasets and three scenarios                                            *)
EngineRow == {[c \in {"a", "b"} |-> IF c = "a" THEN x ELSE y] :
                 x \in PairCells, y \in {Num(1), Str("x")}}

EngineInputs ==
    {[columns |-> <<"a", "b">>, rows |-> r] : r \in SeqsUpTo(EngineRow, MaxRows - 2)}
        \cup {HalfCorrelated, TiedStrings, ScenarioE}

(* rows of a grouping column g and a target column t *)
ChiRow == {[c \in {"g", "t"} |-> IF c = "g" THEN x ELSE y] :
              x \in {Null, Str("A"), Str("B")}, y \in {Null, Str("y"), Str("n")}}

ChiSquaredInputs ==
    {[columns |-> <<"g", "t">>, rows |-> r] : r \in SeqsUpTo(ChiRow, MaxRows)}

(* column names a caller may pass: the dataset's columns and one it lacks *)
ColumnArgs(ds) == Range(ds.columns) \cup {"missing"}

NoResult == [ok |-> FALSE, err |-> "none", val |-> <<>>]

Idle == op = NoCall

----------------------------------------------------------------------------
(* Operations: one call of the engine on the dataset *)

(* MUTANT of CalculateDescriptiveStats: the call leaves the rows reversed *)
CalculateDescriptiveStats_ReversesRows ==
    /\ Idle
    /\ \E c \in ColumnArgs(dataset) :
          /\ op' = Call("calculateDescriptiveStats", c, "", 0)
          /\ result' = calculateDescriptiveStats(dataset, c)
    /\ dataset' = [dataset EXCEPT !.rows =
                      [i \in 1..Len(dataset.rows) |->
                          dataset.rows[Len(dataset.rows) + 1 - i]]]

CalculateDescriptiveStats ==
    /\ Idle
    /\ \E c \in ColumnArgs(dataset) :
          /\ op' = Call("calculateDescriptiveStats", c, "", 0)
          /\ result' = calculateDescriptiveStats(dataset, c)
    /\ UNCHANGED dataset

CalculateCorrelation ==
    /\ Idle
    /\ \E c1 \in ColumnArgs(dataset), c2 \in ColumnArgs(dataset) :
          /\ op' = Call("calculateCorrelation", c1, c2, 0)
          /\ result' = calculateCorrelation(dataset, c1, c2)
    /\ UNCHANGED dataset

CalculateCorrelationMatrix ==
    /\ Idle
    /\ op' = Call("calculateCorrelationMatrix", "", "", 0)
    /\ result' = calculateCorrelationMatrix(dataset)
    /\ UNCHANGED dataset

GenerateFrequencyDistribution ==
    /\ Idle
    /\ \E c \in ColumnArgs(dataset) :
          /\ op' = Call("generateFrequencyDistribution", c, "", 0)
          /\ result' = generateFrequencyDistribution(dataset, c)
    /\ UNCHANGED dataset

GenerateHistogram ==
    /\ Idle
    /\ \E c \in ColumnArgs(dataset), b \in BinArgs :
          /\ op' = Call("generateHistogram", c, "", b)
          /\ result' = generateHistogram(dataset, c, IF b = 0 THEN DefaultBins ELSE b)
    /\ UNCHANGED dataset

GenerateScatterPlot ==
    /\ Idle
    /\ \E c1 \in ColumnArgs(dataset), c2 \in ColumnArgs(dataset) :
          /\ op' = Call("generateScatterPlot", c1, c2, 0)
          /\ result' = generateScatterPlot(dataset, c1, c2)
    /\ UNCHANGED dataset

KaplanMeierEndpoint ==
    /\ Idle
    /\ \E c1 \in ColumnArgs(dataset), c2 \in ColumnArgs(dataset) :
          /\ op' = Call("kaplanMeierEndpoint", c1, c2, 0)
          /\ result' = kaplanMeierEndpoint(dataset, c1, c2)
    /\ UNCHANGED dataset

KaplanMeierDispatch ==
    /\ Idle
    /\ \E c1 \in ColumnArgs(dataset), c2 \in ColumnArgs(dataset) :
          /\ op' = Call("kaplanMeierDispatch", c1, c2, 0)
          /\ result' = kaplanMeierDispatch(dataset, <<c1, c2>>)
    /\ UNCHANGED dataset

PerformIndependentTTest ==
    /\ Idle
    /\ \E c1 \in ColumnArgs(dataset), c2 \in ColumnArgs(dataset) :
          /\ op' = Call("performIndependentTTest", c1, c2, 0)
          /\ result' = performIndependentTTest(dataset, c1, c2)
    /\ UNCHANGED dataset

GetSummaryStatistics ==
    /\ Idle
    /\ op' = Call("getSummaryStatistics", "", "", 0)
    /\ result' = getSummaryStatistics(dataset)
    /\ UNCHANGED dataset

(* the target column first, one grouping column after it *)
PerformChiSquaredWithPostHoc ==
    /\ Idle
    /\ \E c1 \in ColumnArgs(dataset), c2 \in ColumnArgs(dataset) :
          /\ op' = Call("performChiSquaredWithPostHoc", c1, c2, 0)
          /\ result' = performChiSquaredWithPostHoc(dataset, <<c1, c2>>)
    /\ UNCHANGED dataset

(* the caller has consumed the result; the engine keeps nothing of the call *)
Return ==
    /\ ~Idle
    /\ op' = NoCall
    /\ result' = NoResult
    /\ UNCHANGED dataset

InitCorrelation ==
    /\ dataset \in TwoColumnInputs
    /\ op = NoCall
    /\ result = NoResult

NextCorrelation ==
    \/ CalculateCorrelation
    \/ CalculateCorrelationMatrix
    \/ Return

SpecCorrelation == InitCorrelation /\ [][NextCorrelation]_vars

InitDescriptive ==
    /\ dataset \in DescriptiveInputs
    /\ op = NoCall
    /\ result = NoResult

NextDescriptive ==
    \/ CalculateDescriptiveStats
    \/ Return

SpecDescriptive == InitDescriptive /\ [][NextDescriptive]_vars

InitFrequency ==
    /\ dataset \in FrequencyInputs
    /\ op = NoCall
    /\ result = NoResult

NextFrequency ==
    \/ GenerateFrequencyDistribution
    \/ Return

SpecFrequency == InitFrequency /\ [][NextFrequency]_vars

InitHistogram ==
    /\ dataset \in HistogramInputs
    /\ op = NoCall
    /\ result = NoResult

NextHistogram ==
    \/ GenerateHistogram
    \/ Return

SpecHistogram == InitHistogram /\ [][NextHistogram]_vars

InitScatter ==
    /\ dataset \in TwoColumnInputs
    /\ op = NoCall
    /\ result = NoResult

NextScatter ==
    \/ GenerateScatterPlot
    \/ Return

SpecScatter == InitScatter /\ [][NextScatter]_vars

InitSurvival ==
    /\ dataset \in SurvivalInputs
    /\ op = NoCall
    /\ result = NoResult

NextSurvival ==
    \/ KaplanMeierEndpoint
    \/ KaplanMeierDispatch
    \/ Return

SpecSurvival == InitSurvival /\ [][NextSurvival]_vars

InitTTest ==
    /\ dataset \in TTestInputs
    /\ op = NoCall
    /\ result = NoResult

NextTTest ==
    \/ PerformIndependentTTest
    \/ Return

SpecTTest == InitTTest /\ [][NextTTest]_vars

InitSummary ==
    /\ dataset \in TwoColumnInputs
    /\ op = NoCall
    /\ result = NoResult

NextSummary ==
    \/ GetSummaryStatistics
    \/ Return

SpecSummary == InitSummary /\ [][NextSummary]_vars

(* every operation of the engine, in any order, on one dataset *)
InitEngine ==
    /\ dataset \in EngineInputs
    /\ op = NoCall
    /\ result = NoResult

NextEngine ==
    \/ CalculateDescriptiveStats
    \/ CalculateCorrelation
    \/ CalculateCorrelationMatrix
    \/ GenerateFrequencyDistribution
    \/ GenerateHistogram
    \/ GenerateScatterPlot
    \/ GetSummaryStatistics
    \/ PerformIndependentTTest
    \/ Return

SpecEngine == InitEngine /\ [][NextEngine]_vars

InitChiSquared ==
    /\ dataset \in ChiSquaredInputs
    /\ op = NoCall
    /\ result = NoResult

NextChiSquared ==
    \/ PerformChiSquaredWithPostHoc
    \/ Return

SpecChiSquared == InitChiSquared /\ [][NextChiSquared]_vars

(* every input, every operation *)
Init ==
    /\ dataset \in TwoColumnInputs \cup DescriptiveInputs \cup FrequencyInputs
                     \cup HistogramInputs \cup SurvivalInputs \cup TTestInputs
                     \cup ChiSquaredInputs
    /\ op = NoCall
    /\ result = NoResult

Next ==
    \/ CalculateDescriptiveStats
    \/ CalculateCorrelation
    \/ CalculateCorrelationMatrix
    \/ GenerateFrequencyDistribution
    \/ GenerateHistogram
    \/ GenerateScatterPlot
    \/ KaplanMeierEndpoint
    \/ KaplanMeierDispatch
    \/ PerformIndependentTTest
    \/ GetSummaryStatistics
    \/ PerformChiSquaredWithPostHoc
    \/ Return

Spec == Init /\ [][Next]_vars

----------------------------------------------------------------------------
(* Definitions the properties are stated with.  They restate what a claim  *)
(* says in its own terms, independently of how the code computes it.       *)

NumericAt(ds, i, col) == isNumber(Get(ds.rows[i], col))

NumericCount(ds, col) == Cardinality({i \in 1..Len(ds.rows) : NumericAt(ds, i, col)})

NonNullCount(ds, col) == Cardinality({i \in 1..Len(ds.rows) : Get(ds.rows[i], col) # Null})

NumericColumnSet(ds) == {c \in Range(ds.columns) : NumericCount(ds, c) > 0}

(* the rows in which both columns hold a number *)
AlignedRows(ds, colA, colB) ==
    {i \in 1..Len(ds.rows) : NumericAt(ds, i, colA) /\ NumericAt(ds, i, colB)}

(* the k-th smallest element of a set of row indexes *)
Kth(S, k) == CHOOSE i \in S : Cardinality({j \in S : j < i}) = k - 1

AlignedSeries(ds, colA, colB, col) ==
    LET S == AlignedRows(ds, colA, colB)
    IN  [k \in 1..Cardinality(S) |-> Get(ds.rows[Kth(S, k)], col).n]

SumOver(x, f(_)) ==
    LET acc[i \in 0..Len(x)] == IF i = 0 THEN 0 ELSE acc[i - 1] + f(i)
    IN  acc[Len(x)]

(* n * sum(x*y) - sum(x) * sum(y) *)
CrossDeviation(x, y) ==
    LET xy(i) == x[i] * y[i]
        xi(i) == x[i]
        yi(i) == y[i]
    IN  Len(x) * SumOver(x, xy) - SumOver(x, xi) * SumOver(y, yi)

(* Pearson's r of two series of equal length n >= 2, by the textbook       *)
(* formula; undefined (NaN) when a series has no variance                  *)
PearsonOf(x, y) ==
    LET sxy == CrossDeviation(x, y)
        sxx == CrossDeviation(x, x)
        syy == CrossDeviation(y, y)
    IN  IF sxx = 0 \/ syy = 0
        THEN [kind |-> "nan", sgn |-> 0, sq |-> RInt(0)]
        ELSE [kind |-> "num", sgn |-> Sign(sxy), sq |-> Rat(sxy * sxy, sxx * syy)]

One == [kind |-> "num", sgn |-> 1, sq |-> RInt(1)]

(* sum of squared deviations from the mean, divided by n - 1 *)
SampleVarianceOf(x) == Rat(CrossDeviation(x, x), Len(x) * (Len(x) - 1))

IsCall(name) == op.name = name

OnColumn == op.c1 \in Range(dataset.columns)

BinsOfCall == IF op.bins = 0 THEN DefaultBins ELSE op.bins

CountSum(entries) ==
    LET cnt(i) == entries[i].count
    IN  SumOver(entries, cnt)

----------------------------------------------------------------------------
(* Correlation matrix *)

(* C1: calculateCorrelationMatrix returns a nested map whose keys are      *)
(* exactly the columns with at least one numeric value, with an entry      *)
(* M[a][b] for every ordered pair of them, and M[a][b] = M[b][a].          *)
C1_MatrixCompleteSymmetric ==
    IsCall("calculateCorrelationMatrix") =>
        /\ result.ok
        /\ DOMAIN result.val = NumericColumnSet(dataset)
        /\ \A a \in NumericColumnSet(dataset), b \in NumericColumnSet(dataset) :
              /\ b \in DOMAIN result.val[a]
              /\ a \in DOMAIN result.val[b]
              /\ result.val[a][b] = result.val[b][a]

(* a pair of columns whose correlation cannot be computed *)
Uncomputable(ds, a, b) ==
    \/ Cardinality(AlignedRows(ds, a, b)) < 2
    \/ PearsonOf(AlignedSeries(ds, a, b, a), AlignedSeries(ds, a, b, b)).kind = "nan"

(* C2: calculateCorrelationMatrix never raises because of a pair that      *)
(* cannot be computed: a pair with fewer than 2 row-aligned numeric pairs  *)
(* or with a zero-variance series holds null in its cell and its mirror    *)
(* cell, and every other cell holds the computed coefficient.              *)
C2_MatrixNullForFailedPairs ==
    IsCall("calculateCorrelationMatrix") =>
        /\ result.ok
        /\ \A a \in NumericColumnSet(dataset), b \in NumericColumnSet(dataset) :
              /\ a \in DOMAIN result.val
              /\ b \in DOMAIN result.val[a]
              /\ result.val[a][b] =
                    IF Uncomputable(dataset, a, b) THEN NullCell
                    ELSE PearsonOf(AlignedSeries(dataset, a, b, a),
                                   AlignedSeries(dataset, a, b, b))

----------------------------------------------------------------------------
(* Descriptive statistics *)

(* C3: for a column with n >= 2 numeric values the variance is the sample  *)
(* variance (divisor n-1) and standardDeviation its square root; the       *)
(* column [1,2,3,4,5] gives mean 3, median 3, variance 2.5.                *)
C3_SampleVariance ==
    IsCall("calculateDescriptiveStats") /\ result.ok =>
        /\ result.val.count >= 2 =>
              /\ result.val.variance = SampleVarianceOf(numericValues(dataset, op.c1))
              /\ result.val.standardDeviation = Sqrt(result.val.variance)
        /\ dataset = ScenarioA /\ op.c1 = "a" =>
              /\ result.val.mean = RInt(3)
              /\ result.val.median = RInt(3)
              /\ result.val.variance = <<5, 2>>

----------------------------------------------------------------------------
(* Pairwise correlation *)

(* C6: calculateCorrelation computes Pearson's r over the row-aligned      *)
(* pairs only: the sample is the sequence, in row order, of                *)
(* (row[colA], row[colB]) of the rows in which both are numbers, so both   *)
(* series have the same length.                                            *)
C6_RowAlignedPairs ==
    IsCall("calculateCorrelation") /\ result.ok =>
        LET xs == AlignedSeries(dataset, op.c1, op.c2, op.c1)
            ys == AlignedSeries(dataset, op.c1, op.c2, op.c2)
        IN  /\ Len(xs) = Len(ys)
            /\ Len(xs) = Cardinality(AlignedRows(dataset, op.c1, op.c2))
            /\ result.val.coefficient = PearsonOf(xs, ys)

(* a correlation was returned although some row holding a number in one    *)
(* column was left out because the other column has none there             *)
C6_Witness ==
    /\ IsCall("calculateCorrelation")
    /\ result.ok
    /\ op.c1 # op.c2
    /\ result.val.coefficient.kind = "num"
    /\ \E i \in 1..Len(dataset.rows) :
          NumericAt(dataset, i, op.c1) /\ ~NumericAt(dataset, i, op.c2)

(* C7 as claimed: with fewer than 2 row-aligned numeric pairs of two       *)
(* columns of the dataset the call fails with the insufficient-data error. *)
C7_InsufficientDataError ==
    IsCall("calculateCorrelation")
    /\ op.c1 \in Range(dataset.columns) /\ op.c2 \in Range(dataset.columns)
    /\ Cardinality(AlignedRows(dataset, op.c1, op.c2)) < 2 =>
        /\ ~result.ok
        /\ result.err = "InsufficientData"

(* C7 amended: with fewer than 2 row-aligned numeric pairs the call fails  *)
(* and returns no result: with the no-numeric-values error when one of the *)
(* two columns has no numeric value at all, with the insufficient-data     *)
(* error otherwise (also when each column has 2 or more numeric values).   *)
C7_FailsBelowTwoPairs ==
    IsCall("calculateCorrelation")
    /\ Cardinality(AlignedRows(dataset, op.c1, op.c2)) < 2 =>
        /\ ~result.ok
        /\ result.err =
              IF NumericCount(dataset, op.c1) = 0 \/ NumericCount(dataset, op.c2) = 0
              THEN "NoNumericValues" ELSE "InsufficientData"

(* each column has two numeric values, only one row has both *)
C7_Witness ==
    /\ IsCall("calculateCorrelation")
    /\ NumericCount(dataset, op.c1) >= 2
    /\ NumericCount(dataset, op.c2) >= 2
    /\ Cardinality(AlignedRows(dataset, op.c1, op.c2)) = 1
    /\ result = Err("InsufficientData")

(* C8: a returned coefficient is a number in [-1, 1]; the correlation of a *)
(* column with itself, and the diagonal of the matrix, is exactly 1.0 for  *)
(* every column with at least 2 numeric values, constant columns included. *)
C8_CoefficientRangeAndDiagonal ==
    /\ IsCall("calculateCorrelation") /\ result.ok =>
          /\ result.val.coefficient.kind = "num"
          /\ RLeq(result.val.coefficient.sq, RInt(1))
    /\ IsCall("calculateCorrelation") /\ op.c1 = op.c2
       /\ NumericCount(dataset, op.c1) >= 2 =>
          /\ result.ok
          /\ result.val.coefficient = One
    /\ IsCall("calculateCorrelationMatrix") /\ result.ok =>
          \A a \in NumericColumnSet(dataset) :
              NumericCount(dataset, a) >= 2 =>
                  /\ a \in DOMAIN result.val
                  /\ a \in DOMAIN result.val[a]
                  /\ result.val[a][a] = One

(* C9: significance is 'significant' exactly when |coefficient| > 0.5 and  *)
(* 'not_significant' otherwise; a coefficient of exactly 0.5 or -0.5 is    *)
(* 'not_significant', the coefficient 1.0 of [1,2,3] with [1,2,3] is       *)
(* 'significant'.                                                          *)
C9_SignificanceThreshold ==
    IsCall("calculateCorrelation") /\ result.ok =>
        LET c == result.val.coefficient
            above == c.kind = "inf" \/ (c.kind = "num" /\ 4 * c.sq[1] > c.sq[2])
        IN  /\ result.val.significance =
                  IF above THEN "significant" ELSE "not_significant"
            /\ c.kind = "num" /\ c.sq = <<1, 4>> =>
                  result.val.significance = "not_significant"
            /\ dataset = ScenarioC /\ op.c1 = "a" /\ op.c2 = "b" =>
                  c = One /\ result.val.significance = "significant"

(* the coefficient is exactly 0.5: [1,2,3] with [1,3,2] *)
C9_Witness ==
    /\ IsCall("calculateCorrelation")
    /\ dataset = HalfCorrelated
    /\ op.c1 = "a" /\ op.c2 = "b"
    /\ result.ok
    /\ result.val.coefficient = [kind |-> "num", sgn |-> 1, sq |-> <<1, 4>>]
    /\ result.val.significance = "not_significant"

----------------------------------------------------------------------------
(* Histogram *)

(* C4: for a column with a numeric value and a positive bin count N (10    *)
(* when none is given) generateHistogram returns exactly N bins and their  *)
(* counts sum to the number of numeric values of the column.               *)
C4_HistogramCountsSum ==
    IsCall("generateHistogram") /\ NumericCount(dataset, op.c1) > 0 =>
        /\ result.ok
        /\ Len(result.val.data) = BinsOfCall
        /\ CountSum(result.val.data) = NumericCount(dataset, op.c1)

(* the values v of x with lo <= v < hi, or lo <= v <= hi when closed *)
InBinCount(x, lo, hi, closed) ==
    Cardinality({i \in 1..Len(x) :
        /\ RLeq(lo, RInt(x[i]))
        /\ RLess(RInt(x[i]), hi) \/ (closed /\ RInt(x[i]) = hi)})

(* C5: with min < max, bin i counts exactly the values v with              *)
(* min + i*width <= v < min + (i+1)*width, the last bin also those equal   *)
(* to its upper bound, so the maximum is counted in the last bin; [0,10]   *)
(* with 5 bins: the value 10 is in the last bin, 8 to 10.                  *)
C5_HistogramBinMembership ==
    IsCall("generateHistogram") /\ result.ok =>
        LET x == numericValues(dataset, op.c1)
            min == ssMin(x)
            max == ssMax(x)
            N == BinsOfCall
            width == Rat(max - min, N)
            bound(i) == RAdd(RInt(min), RMul(RInt(i), width))
        IN  /\ min < max =>
                  \A i \in 0..(N - 1) :
                      result.val.data[i + 1].count =
                          InBinCount(x, bound(i), bound(i + 1), i = N - 1)
            /\ min < max => result.val.data[N].count >= 1
            /\ dataset = ScenarioB /\ op.c1 = "a" /\ op.bins = 5 =>
                  /\ result.val.data[5].range = "8.00-10.00"
                  /\ result.val.data[5].count = 1

----------------------------------------------------------------------------
(* Frequency distribution *)

IsPermutationOf(arr, entries) ==
    /\ Len(arr) = Len(entries)
    /\ \A i \in 1..Len(entries) :
          Cardinality({j \in 1..Len(arr) :
              arr[j] = [value |-> entries[i].key, count |-> entries[i].count]}) = 1

(* C10: the counts of the frequency map sum to the number of non-null      *)
(* values of the column, and the array form holds exactly the entries of   *)
(* the map, ordered by count descending.                                   *)
C10_FrequencyCounts ==
    IsCall("generateFrequencyDistribution") /\ OnColumn =>
        /\ result.ok
        /\ CountSum(result.val.data) = NonNullCount(dataset, op.c1)
        /\ \A i \in 1..Len(result.val.data), j \in 1..Len(result.val.data) :
              i # j => result.val.data[i].key # result.val.data[j].key
        /\ IsPermutationOf(result.val.visualization.data, result.val.data)
        /\ \A i \in 1..(Len(result.val.visualization.data) - 1) :
              result.val.visualization.data[i].count
                  >= result.val.visualization.data[i + 1].count

(* a value occurs twice and the sort moved its entry ahead of an earlier key *)
C10_Witness ==
    /\ IsCall("generateFrequencyDistribution")
    /\ OnColumn
    /\ result.ok
    /\ Len(result.val.data) >= 2
    /\ result.val.data[1].count < result.val.data[2].count
    /\ result.val.visualization.data[1].value = result.val.data[2].key

----------------------------------------------------------------------------
(* Scatter plot *)

(* C11: generateScatterPlot returns, in row order, exactly one point       *)
(* {x: row[xCol], y: row[yCol]} for each row in which both values are      *)
(* numbers and none for any other row; it fails, returning nothing, when   *)
(* no row qualifies.                                                       *)
C11_ScatterPoints ==
    IsCall("generateScatterPlot") =>
        LET S == AlignedRows(dataset, op.c1, op.c2)
        IN  IF S = {} THEN ~result.ok /\ result.err = "NoValidPairs"
            ELSE /\ result.ok
                 /\ Len(result.val.data) = Cardinality(S)
                 /\ \A k \in 1..Cardinality(S) :
                       result.val.data[k] =
                           [x |-> Get(dataset.rows[Kth(S, k)], op.c1).n,
                            y |-> Get(dataset.rows[Kth(S, k)], op.c2).n]
                 /\ result.val.visualization.data = result.val.data

(* points were returned although a row with a number in x only was skipped *)
C11_Witness ==
    /\ IsCall("generateScatterPlot")
    /\ result.ok
    /\ op.c1 # op.c2
    /\ Len(result.val.data) >= 2
    /\ \E i \in 1..Len(dataset.rows) :
          NumericAt(dataset, i, op.c1) /\ ~NumericAt(dataset, i, op.c2)

----------------------------------------------------------------------------
(* Kaplan-Meier *)

IsSurvivalCall == IsCall("kaplanMeierEndpoint") \/ IsCall("kaplanMeierDispatch")

BooleanAt(ds, i, col) == isBoolean(Get(ds.rows[i], col))

BooleanCount(ds, col) == Cardinality({i \in 1..Len(ds.rows) : BooleanAt(ds, i, col)})

(* the k-th number of a column and the k-th boolean of a column *)
TimeOf(ds, col, k) ==
    Get(ds.rows[Kth({i \in 1..Len(ds.rows) : NumericAt(ds, i, col)}, k)], col).n

EventOf(ds, col, k) ==
    Get(ds.rows[Kth({i \in 1..Len(ds.rows) : BooleanAt(ds, i, col)}, k)], col) = Bool(TRUE)

(* subjects at risk at time t, events at time t *)
AtRisk(ds, t) ==
    Cardinality({k \in 1..NumericCount(ds, op.c1) : TimeOf(ds, op.c1, k) >= t})

EventsAt(ds, t) ==
    Cardinality({k \in 1..NumericCount(ds, op.c1) :
        TimeOf(ds, op.c1, k) = t /\ EventOf(ds, op.c2, k)})

(* the product of (n - d)/n over the event times up to t *)
SurvivalAt(ds, t) ==
    LET S[u \in 0..t] ==
            IF u = 0 THEN RInt(1)
            ELSE IF EventsAt(ds, u) > 0
            THEN RMul(S[u - 1], Rat(AtRisk(ds, u) - EventsAt(ds, u), AtRisk(ds, u)))
            ELSE S[u - 1]
    IN  S[t]

(* C12: the curve returned for equal-length inputs is in time order,       *)
(* non-increasing, and every survival value lies in [0, 1].                *)
C12_CurveNonIncreasing ==
    IsSurvivalCall /\ result.ok =>
        /\ \A k \in 1..Len(result.val) :
              /\ RLeq(RInt(0), result.val[k].survival)
              /\ RLeq(result.val[k].survival, RInt(1))
        /\ \A k \in 1..(Len(result.val) - 1) :
              /\ result.val[k].time < result.val[k + 1].time
              /\ RLeq(result.val[k + 1].survival, result.val[k].survival)

(* a curve of several points that starts below 1 and goes down to 0 *)
C12_Witness ==
    /\ IsSurvivalCall
    /\ result.ok
    /\ Len(result.val) >= 2
    /\ RLess(result.val[1].survival, RInt(1))
    /\ RLess(RInt(0), result.val[1].survival)
    /\ result.val[Len(result.val)].survival = RInt(0)

(* C13: survival changes only at times with an event: at an event time t   *)
(* with d events and n subjects of time >= t it is multiplied by 1 - d/n;  *)
(* a censored subject gives no drop and only leaves the later risk sets.   *)
(* Times [5,10] with events [true,false]: 0.5 at t=5 and at t=10.          *)
C13_DropsAtEventTimesOnly ==
    IsSurvivalCall /\ result.ok =>
        /\ \A k \in 1..Len(result.val) :
              LET t == result.val[k].time
                  before == IF k = 1 THEN RInt(1) ELSE result.val[k - 1].survival
              IN  /\ result.val[k].survival = SurvivalAt(dataset, t)
                  /\ EventsAt(dataset, t) = 0 => result.val[k].survival = before
                  /\ EventsAt(dataset, t) > 0 =>
                        result.val[k].survival =
                            RMul(before, RSub(RInt(1),
                                 Rat(EventsAt(dataset, t), AtRisk(dataset, t))))
        /\ {result.val[k].time : k \in 1..Len(result.val)} =
              {TimeOf(dataset, op.c1, k) : k \in 1..NumericCount(dataset, op.c1)}
        /\ dataset = ScenarioD /\ op.c1 = "t" /\ op.c2 = "e" =>
              result.val = <<[time |-> 5, survival |-> <<1, 2>>],
                             [time |-> 10, survival |-> <<1, 2>>]>>

(* a censoring time without a drop, then an event time whose risk set the  *)
(* censored subject has left                                               *)
C13_Witness ==
    /\ IsSurvivalCall
    /\ result.ok
    /\ \E k \in 2..(Len(result.val) - 1) :
          /\ EventsAt(dataset, result.val[k].time) = 0
          /\ result.val[k].survival = result.val[k - 1].survival
          /\ RLess(result.val[k + 1].survival, result.val[k].survival)
          /\ AtRisk(dataset, result.val[k + 1].time) < AtRisk(dataset, result.val[k].time)

(* C14: a Kaplan-Meier analysis whose time and event sequences differ in   *)
(* length fails with a mismatched-length error and returns no curve, at    *)
(* the endpoint (its own check, status 400) and in the dispatch of an AI   *)
(* query (the estimator's error).                                          *)
C14_MismatchedLengths ==
    NumericCount(dataset, op.c1) # BooleanCount(dataset, op.c2) =>
        /\ IsCall("kaplanMeierEndpoint")
           /\ op.c1 \in Range(dataset.columns) /\ op.c2 \in Range(dataset.columns) =>
              result = Err("400 SameNumberOfEntries")
        /\ IsCall("kaplanMeierDispatch") =>
              result = Err("Error performing analysis: MismatchedLength")

(* the dispatch extracted sequences of different lengths *)
C14_Witness ==
    /\ IsCall("kaplanMeierDispatch")
    /\ NumericCount(dataset, op.c1) >= 2
    /\ BooleanCount(dataset, op.c2) = 1
    /\ ~result.ok

----------------------------------------------------------------------------
(* Independent two-sample t-test *)

IsTTest == IsCall("performIndependentTTest")

ColumnsExist == op.c1 \in Range(dataset.columns) /\ op.c2 \in Range(dataset.columns)

HasGroupValue(ds, i, g) == Get(ds.rows[i], g) \notin {Null, Undefined}

(* the distinct non-null values of the group column, stringified *)
GroupValueSet(ds, g) ==
    {StringOf(Get(ds.rows[i], g)) : i \in {j \in 1..Len(ds.rows) : HasGroupValue(ds, j, g)}}

(* the rows of a group that hold a number in the value column *)
ObservationsOf(ds, g, v, key) ==
    {i \in 1..Len(ds.rows) :
        /\ HasGroupValue(ds, i, g)
        /\ StringOf(Get(ds.rows[i], g)) = key
        /\ NumericAt(ds, i, v)}

GroupsWithData(ds, g, v) ==
    {key \in GroupValueSet(ds, g) : ObservationsOf(ds, g, v, key) # {}}

(* the numbers of a group, in row order *)
SampleOf(ds, g, v, key) ==
    LET S == ObservationsOf(ds, g, v, key)
    IN  [k \in 1..Cardinality(S) |-> Get(ds.rows[Kth(S, k)], v).n]

MeanOf(x) ==
    LET xi(i) == x[i]
    IN  Rat(SumOver(x, xi), Len(x))

(* C15 as claimed: with existing columns and a number in the value column, *)
(* the call fails with the group-count error unless the group column holds *)
(* exactly 2 distinct non-null (stringified) values.                       *)
C15_GroupCountError ==
    IsTTest /\ ColumnsExist /\ NumericCount(dataset, op.c2) > 0
    /\ Cardinality(GroupValueSet(dataset, op.c1)) # 2 =>
        /\ ~result.ok
        /\ result.err = "GroupCount"

(* C15 amended: the groups counted are the group values that have a number *)
(* in the value column.  The call fails with the group-count error exactly *)
(* when both columns exist, the value column holds a number and the number *)
(* of such groups is not 2; before that it fails with a column-not-found   *)
(* or a no-numeric-data error.                                             *)
C15_GroupCountByData ==
    IsTTest =>
        IF op.c1 \notin Range(dataset.columns) THEN result = Err("GroupColumnNotFound")
        ELSE IF op.c2 \notin Range(dataset.columns) THEN result = Err("ValueColumnNotFound")
        ELSE IF NumericCount(dataset, op.c2) = 0 THEN result = Err("NoNumericData")
        ELSE IF Cardinality(GroupsWithData(dataset, op.c1, op.c2)) # 2
        THEN result = Err("GroupCount")
        ELSE result.err # "GroupCount"

(* two group values, one of them without a number: counted as one group *)
C15_Witness ==
    /\ IsTTest
    /\ Cardinality(GroupValueSet(dataset, op.c1)) = 2
    /\ Cardinality(GroupsWithData(dataset, op.c1, op.c2)) = 1
    /\ result = Err("GroupCount")

C17_GroupStatistics ==
    /\ IsTTest /\ result.ok =>
          LET r == result.val
              s1 == SampleOf(dataset, op.c1, op.c2, r.group1Name)
              s2 == SampleOf(dataset, op.c1, op.c2, r.group2Name)
          IN  /\ r.group1Size = Len(s1)
              /\ r.group2Size = Len(s2)
              /\ r.group1Mean = MeanOf(s1)
              /\ r.group2Mean = MeanOf(s2)
              /\ r.group1Variance = SampleVarianceOf(s1)
              /\ r.group2Variance = SampleVarianceOf(s2)
              /\ r.degreesOfFreedom = r.group1Size + r.group2Size - 2
    /\ IsTTest /\ dataset = ScenarioE /\ op.c1 = "g" /\ op.c2 = "v" =>
          /\ result.ok
          /\ result.val.group1Mean = RInt(2)
          /\ result.val.group2Mean = RInt(5)
          /\ result.val.degreesOfFreedom = 4

(* the rows of one group moved before all others *)
GroupFirst(ds, g, key) ==
    LET inGroup(row) == Get(row, g) \notin {Null, Undefined} /\ StringOf(Get(row, g)) = key
        others(row) == ~inGroup(row)
    IN  [ds EXCEPT !.rows = SelectSeq(ds.rows, inGroup) \o SelectSeq(ds.rows, others)]

(* the two group names exchanged *)
Relabelled(ds, g, k1, k2) ==
    LET swap(val) ==
            IF val \in {Null, Undefined} THEN val
            ELSE IF StringOf(val) = k1 THEN Str(k2)
            ELSE IF StringOf(val) = k2 THEN Str(k1)
            ELSE val
    IN  [ds EXCEPT !.rows =
            [i \in 1..Len(ds.rows) |->
                [c \in DOMAIN ds.rows[i] |->
                    IF c = g THEN swap(ds.rows[i][c]) ELSE ds.rows[i][c]]]]

(* datasets with the same rows in another order or under exchanged names *)
SwapCandidates(ds, g, k1, k2) == {GroupFirst(ds, g, k2), Relabelled(ds, g, k1, k2)}

(* the result for other reports as group1 the sample reported here as     *)
(* group2 and the reverse                                                 *)
SamplesSwapped(other, r2) ==
    /\ r2.ok
    /\ SortAsc(SampleOf(other, op.c1, op.c2, r2.val.group1Name)) =
          SortAsc(SampleOf(dataset, op.c1, op.c2, result.val.group2Name))
    /\ SortAsc(SampleOf(other, op.c1, op.c2, r2.val.group2Name)) =
          SortAsc(SampleOf(dataset, op.c1, op.c2, result.val.group1Name))

Negated(t) == [t EXCEPT !.sgn = -t.sgn]

(* C18: the returned tStatistic is negative when group1Mean < group2Mean,  *)
(* positive when group1Mean > group2Mean, and for a dataset holding the    *)
(* same two samples with the other one reported as group1 the statistic is *)
(* the exact negative and degreesOfFreedom the same.                       *)
C18_SignAndSwap ==
    IsTTest /\ result.ok /\ op.c1 # op.c2 =>
        LET r == result.val
            m1 == MeanOf(SampleOf(dataset, op.c1, op.c2, r.group1Name))
            m2 == MeanOf(SampleOf(dataset, op.c1, op.c2, r.group2Name))
        IN  /\ RLess(m1, m2) => r.tStatistic.sgn = -1
            /\ RLess(m2, m1) => r.tStatistic.sgn = 1
            /\ \A other \in SwapCandidates(dataset, op.c1, r.group1Name, r.group2Name) :
                  LET r2 == performIndependentTTest(other, op.c1, op.c2)
                  IN  SamplesSwapped(other, r2) =>
                        /\ r2.val.tStatistic = Negated(r.tStatistic)
                        /\ r2.val.degreesOfFreedom = r.degreesOfFreedom

(* a negative statistic, and a dataset with the samples in the other order *)
(* whose statistic is positive                                             *)
C18_Witness ==
    /\ IsTTest
    /\ result.ok
    /\ op.c1 # op.c2
    /\ result.val.tStatistic.sgn = -1
    /\ \E other \in SwapCandidates(dataset, op.c1, result.val.group1Name,
                                   result.val.group2Name) :
          LET r2 == performIndependentTTest(other, op.c1, op.c2)
          IN  SamplesSwapped(other, r2) /\ r2.val.tStatistic.sgn = 1

----------------------------------------------------------------------------
(* Descriptive statistics: empty columns and quartiles *)

(* C19: calculateDescriptiveStats fails with the empty-column error, and   *)
(* returns no result, exactly when the column has no numeric value;        *)
(* otherwise it returns a result whose count is the number of numeric      *)
(* entries, null and non-numeric entries excluded.                         *)
C19_EmptyColumnError ==
    IsCall("calculateDescriptiveStats") =>
        IF NumericCount(dataset, op.c1) = 0
        THEN result = Err("NoNumericValues")
        ELSE /\ result.ok
             /\ result.val.count = NumericCount(dataset, op.c1)

(* a column with a number, a null and a string *)
C19_Witness ==
    /\ IsCall("calculateDescriptiveStats")
    /\ result.ok
    /\ result.val.count = 1
    /\ \E i, j \in 1..Len(dataset.rows) :
          /\ Get(dataset.rows[i], op.c1) = Null
          /\ Get(dataset.rows[j], op.c1).t = "string"

(* C20: for a column with a numeric value the quartiles satisfy            *)
(* min <= q1 <= q2 <= q3 <= max, and q2 is the reported median.            *)
C20_QuartilesOrdered ==
    IsCall("calculateDescriptiveStats") /\ NumericCount(dataset, op.c1) > 0 =>
        /\ result.ok
        /\ RLeq(RInt(result.val.min), result.val.quartiles.q1)
        /\ RLeq(result.val.quartiles.q1, result.val.quartiles.q2)
        /\ RLeq(result.val.quartiles.q2, result.val.quartiles.q3)
        /\ RLeq(result.val.quartiles.q3, RInt(result.val.max))
        /\ result.val.quartiles.q2 = result.val.median

(* the five values are all different: min < q1 < q2 < q3 < max *)
C20_Witness ==
    /\ IsCall("calculateDescriptiveStats")
    /\ result.ok
    /\ RLess(RInt(result.val.min), result.val.quartiles.q1)
    /\ RLess(result.val.quartiles.q1, result.val.quartiles.q2)
    /\ RLess(result.val.quartiles.q2, result.val.quartiles.q3)
    /\ RLess(result.val.quartiles.q3, RInt(result.val.max))

----------------------------------------------------------------------------
(* Descriptive statistics: the mode *)

(* rows of a column that hold a non-null value, and the string each is     *)
(* counted under                                                           *)
CountedRows(ds, col) == {i \in 1..Len(ds.rows) : Get(ds.rows[i], col) # Null}

KeyAt(ds, col, i) == toStringOrEmpty(Get(ds.rows[i], col))

KeysOf(ds, col) == {KeyAt(ds, col, i) : i \in CountedRows(ds, col)}

KeyCount(ds, col, key) ==
    Cardinality({i \in CountedRows(ds, col) : KeyAt(ds, col, i) = key})

(* the keys of the highest frequency *)
TopKeys(ds, col) ==
    {k \in KeysOf(ds, col) :
        \A j \in KeysOf(ds, col) : KeyCount(ds, col, j) <= KeyCount(ds, col, k)}

(* the key as the number it reads as: "" reads as 0 *)
ReadAsNumber(key) ==
    IF key = "" THEN Num(0)
    ELSE IF \E k \in DecimalKeys : NumStr(k) = key
         THEN Num(CHOOSE k \in DecimalKeys : NumStr(k) = key)
         ELSE Str(key)

(* the tied key met first in row order *)
FirstEncountered(ds, col) ==
    KeyAt(ds, col, CHOOSE i \in CountedRows(ds, col) :
                       /\ KeyAt(ds, col, i) \in TopKeys(ds, col)
                       /\ \A j \in CountedRows(ds, col) :
                             KeyAt(ds, col, j) \in TopKeys(ds, col) => i <= j)

(* the tied key that comes first in the property order of an object: the   *)
(* least of the integer-like keys if there is one, else the first met      *)
FirstInPropertyOrder(ds, col) ==
    LET indexKeys == {k \in TopKeys(ds, col) : IsIndexKey(k)}
    IN  IF indexKeys # {}
        THEN CHOOSE k \in indexKeys :
                 \A j \in indexKeys : IndexOfKey(k) <= IndexOfKey(j)
        ELSE FirstEncountered(ds, col)

IsStats == IsCall("calculateDescriptiveStats") /\ result.ok

(* C21: the mode is taken over all non-null raw values of the column, each *)
(* counted under its string form; when exactly one key has the highest     *)
(* frequency the mode is that key, as a number if the key reads as a       *)
(* number and as the string otherwise.                                     *)
C21_UniqueMode ==
    IsStats /\ Cardinality(TopKeys(dataset, op.c1)) = 1 =>
        \E k \in TopKeys(dataset, op.c1) : result.val.mode = ReadAsNumber(k)

(* a string is the mode of a column that holds a number *)
C21_Witness ==
    /\ IsStats
    /\ Cardinality(TopKeys(dataset, op.c1)) = 1
    /\ result.val.mode = Str("x")
    /\ NumericCount(dataset, op.c1) > 0

(* C22 as stated: when several keys tie for the highest frequency the mode *)
(* is the tied value met first in row order, whatever the values look like.*)
C22_FirstEncountered ==
    IsStats /\ Cardinality(TopKeys(dataset, op.c1)) > 1 =>
        toStringOrEmpty(result.val.mode) = FirstEncountered(dataset, op.c1)

(* C22: when several keys tie for the highest frequency the mode is the    *)
(* string form of the tied key that comes first in property order: the     *)
(* least integer-like tied key if there is one, else the tied key met      *)
(* first in row order.                                                     *)
C22_FirstInPropertyOrder ==
    IsStats /\ Cardinality(TopKeys(dataset, op.c1)) > 1 =>
        result.val.mode = Str(FirstInPropertyOrder(dataset, op.c1))

(* a tie of two numbers where the later, smaller one is the mode *)
C22_Witness ==
    /\ IsStats
    /\ Cardinality(TopKeys(dataset, op.c1)) > 1
    /\ result.val.mode = Str("1")
    /\ FirstEncountered(dataset, op.c1) = "2"

----------------------------------------------------------------------------
(* Summary statistics *)

(* the columns that hold a number, in column order *)
ColumnsWithNumbers(ds) ==
    LET holdsNumber(col) == NumericCount(ds, col) > 0
    IN  SelectSeq(ds.columns, holdsNumber)

(* C23: getSummaryStatistics returns, without raising, exactly one record  *)
(* for each column that holds at least one numeric value, in column order, *)
(* and none for any other column, also when the first non-null value of    *)
(* such a column is a string.                                              *)
C23_OneRecordPerNumericColumn ==
    IsCall("getSummaryStatistics") =>
        /\ result.ok
        /\ Len(result.val.data) = Len(ColumnsWithNumbers(dataset))
        /\ \A i \in 1..Len(result.val.data) :
              result.val.data[i].column = ColumnsWithNumbers(dataset)[i]

----------------------------------------------------------------------------
(* Purity of the engine *)

(* what a call gives when it is the only call made on the dataset *)
ResultAlone(ds, call) ==
    CASE call.name = "calculateDescriptiveStats" ->
             calculateDescriptiveStats(ds, call.c1)
      [] call.name = "calculateCorrelation" ->
             calculateCorrelation(ds, call.c1, call.c2)
      [] call.name = "calculateCorrelationMatrix" ->
             calculateCorrelationMatrix(ds)
      [] call.name = "generateFrequencyDistribution" ->
             generateFrequencyDistribution(ds, call.c1)
      [] call.name = "generateHistogram" ->
             generateHistogram(ds, call.c1,
                               IF call.bins = 0 THEN DefaultBins ELSE call.bins)
      [] call.name = "generateScatterPlot" ->
             generateScatterPlot(ds, call.c1, call.c2)
      [] call.name = "getSummaryStatistics" ->
             getSummaryStatistics(ds)
      [] call.name = "performIndependentTTest" ->
             performIndependentTTest(ds, call.c1, call.c2)
      [] OTHER -> NoResult

----------------------------------------------------------------------------
(* Unknown column names *)

OneColumnCalls == {"calculateDescriptiveStats", "generateFrequencyDistribution",
                   "generateHistogram"}

TwoColumnCalls == {"calculateCorrelation", "generateScatterPlot",
                   "performIndependentTTest"}

(* a call that names a column the dataset does not have *)
NamesUnknownColumn ==
    \/ op.name \in OneColumnCalls \cup TwoColumnCalls
          /\ op.c1 \notin Range(dataset.columns)
    \/ op.name \in TwoColumnCalls /\ op.c2 \notin Range(dataset.columns)

(* C25: every operation that takes a column name fails with an error, and  *)
(* returns no result, when that name is not a column of the dataset.       *)
C25_UnknownColumnFails == NamesUnknownColumn => ~result.ok

----------------------------------------------------------------------------
(* Chi-squared: the contingency table and the observed matrix *)

IsChiSquared == IsCall("performChiSquaredWithPostHoc") /\ result.ok

(* rows with a target value; op.c1 is the target column, op.c2 the         *)
(* grouping column                                                         *)
TargetRows(ds, target) ==
    {i \in 1..Len(ds.rows) : Get(ds.rows[i], target) \notin {Null, Undefined}}

(* the grouping value of a row as the key it is filed under *)
GroupKeyOf(ds, i, grouping) ==
    LET val == Get(ds.rows[i], grouping)
    IN  IF val \in {Null, Undefined} THEN "" ELSE StringOf(val)

TargetValueOf(ds, i, target) == StringOf(Get(ds.rows[i], target))

GroupKeys(ds, target, grouping) ==
    {GroupKeyOf(ds, i, grouping) : i \in TargetRows(ds, target)}

TargetValues(ds, target) ==
    {TargetValueOf(ds, i, target) : i \in TargetRows(ds, target)}

(* rows of group k whose target value is v *)
CellCount(ds, target, grouping, k, v) ==
    Cardinality({i \in TargetRows(ds, target) :
                    /\ GroupKeyOf(ds, i, grouping) = k
                    /\ TargetValueOf(ds, i, target) = v})

RECURSIVE TableSum(_)
TableSum(table) ==
    IF Len(table) = 0 THEN 0 ELSE CountSum(table[1].cells) + TableSum(Tail(table))

(* C26: the cell table[k][v] of the contingency table is the number of     *)
(* rows whose grouping value makes the key k and whose target value        *)
(* stringifies to v; rows without a target value are counted nowhere, so   *)
(* the cells sum to the number of rows with a target value.                *)
C26_ContingencyCounts ==
    IsChiSquared =>
        LET table == result.val.contingencyTable
        IN  /\ \A i, j \in 1..Len(table) : table[i].key = table[j].key => i = j
            /\ {table[i].key : i \in 1..Len(table)} = GroupKeys(dataset, op.c1, op.c2)
            /\ \A i \in 1..Len(table) :
                  /\ \A a, b \in 1..Len(table[i].cells) :
                        table[i].cells[a].key = table[i].cells[b].key => a = b
                  /\ \A a \in 1..Len(table[i].cells) :
                        table[i].cells[a].count =
                            CellCount(dataset, op.c1, op.c2,
                                      table[i].key, table[i].cells[a].key)
                  /\ \A v \in TargetValues(dataset, op.c1) :
                        CellCount(dataset, op.c1, op.c2, table[i].key, v) > 0 =>
                            \E a \in 1..Len(table[i].cells) : table[i].cells[a].key = v
            /\ TableSum(table) = Cardinality(TargetRows(dataset, op.c1))

(* a cell that counts two rows, beside a row without target value *)
C26_Witness ==
    /\ IsChiSquared
    /\ Len(result.val.contingencyTable) = 1
    /\ \E a \in 1..Len(result.val.contingencyTable[1].cells) :
          result.val.contingencyTable[1].cells[a].count = 2
    /\ \E i \in 1..Len(dataset.rows) : Get(dataset.rows[i], op.c1) = Null

(* the orders in which the target values can stand as columns *)
ColumnOrders(ds, target) ==
    {s \in [1..Cardinality(TargetValues(ds, target)) -> TargetValues(ds, target)] :
        Range(s) = TargetValues(ds, target)}

(* C28: the observed matrix handed to the chi-squared test is rectangular  *)
(* and column-aligned: one row per grouping key, in every row one cell for *)
(* each target value of the table, 0 where the group never has the value,  *)
(* and column j stands for the same target value in every row.             *)
C28_ObservedRectangular ==
    IsChiSquared =>
        /\ Len(result.val.observed) =
               Cardinality(GroupKeys(dataset, op.c1, op.c2))
        /\ \E cols \in ColumnOrders(dataset, op.c1) :
              \A i \in 1..Len(result.val.observed) :
                 \E k \in GroupKeys(dataset, op.c1, op.c2) :
                    result.val.observed[i] =
                        [j \in 1..Len(cols) |->
                            CellCount(dataset, op.c1, op.c2, k, cols[j])]

----------------------------------------------------------------------------
(* Kaplan-Meier: alignment of the two sequences handed to the estimator *)

(* rows the times are taken from, rows the event flags are taken from;     *)
(* op.c1 is the time column and op.c2 the event column                     *)
TimeRows(ds, col) == {i \in 1..Len(ds.rows) : NumericAt(ds, i, col)}

EventRows(ds, col) == {i \in 1..Len(ds.rows) : BooleanAt(ds, i, col)}

(* C27: the timeToEvent and eventOccurred sequences from which the         *)
(* endpoint and the dispatch get a curve are index-aligned: element i of   *)
(* both comes from the same row of the dataset, also when some rows lack a *)
(* numeric time and other rows lack a boolean event flag.                  *)
C27_IndexAligned ==
    IsSurvivalCall /\ result.ok =>
        \A k \in 1..Cardinality(TimeRows(dataset, op.c1)) :
            k <= Cardinality(EventRows(dataset, op.c2)) =>
                Kth(TimeRows(dataset, op.c1), k) = Kth(EventRows(dataset, op.c2), k)

----------------------------------------------------------------------------
(* t-test: a statistic that is not finite *)

AllEqual(x) == \A i, j \in 1..Len(x) : x[i] = x[j]

(* two groups with data, each of two observations or more, each without    *)
(* any spread: the pooled variance is zero                                 *)
ZeroPooledVariance ==
    /\ ColumnsExist
    /\ Cardinality(GroupsWithData(dataset, op.c1, op.c2)) = 2
    /\ \A key \in GroupsWithData(dataset, op.c1, op.c2) :
          /\ Len(SampleOf(dataset, op.c1, op.c2, key)) >= 2
          /\ AllEqual(SampleOf(dataset, op.c1, op.c2, key))

(* C29: a result of performIndependentTTest holds a finite tStatistic;     *)
(* when the pooled variance is zero the call fails with an error instead   *)
(* of returning an infinite or NaN statistic.                              *)
C29_FiniteTStatistic ==
    IsTTest =>
        /\ result.ok => result.val.tStatistic.kind = "num"
        /\ ZeroPooledVariance => result = Err("NoTStatistic")

(* groups without spread and with different means: the quotient is infinite *)
C29_Witness ==
    /\ IsTTest
    /\ ZeroPooledVariance
    /\ result = Err("NoTStatistic")
    /\ \E k1, k2 \in GroupsWithData(dataset, op.c1, op.c2) :
          SampleOf(dataset, op.c1, op.c2, k1)[1] # SampleOf(dataset, op.c1, op.c2, k2)[1]

----------------------------------------------------------------------------
(* Histogram: a column whose numbers are all equal *)

(* the column holds a number, and all its numbers are the same *)
AllNumbersEqual(ds, col) ==
    /\ NumericCount(ds, col) > 0
    /\ \A i, j \in 1..Len(ds.rows) :
          NumericAt(ds, i, col) /\ NumericAt(ds, j, col) =>
              Get(ds.rows[i], col).n = Get(ds.rows[j], col).n

(* C30: when all numeric values of the column are equal (bin width 0),     *)
(* generateHistogram with a positive bin count N returns N bins, counts    *)
(* every value in the last bin and 0 in each of the other N - 1 bins.      *)
C30_EqualValuesLastBin ==
    IsCall("generateHistogram") /\ AllNumbersEqual(dataset, op.c1) =>
        /\ result.ok
        /\ Len(result.val.data) = BinsOfCall
        /\ result.val.data[BinsOfCall].count = NumericCount(dataset, op.c1)
        /\ \A i \in 1..(BinsOfCall - 1) : result.val.data[i].count = 0

(* two equal numbers and more than one bin *)
C30_Witness ==
    /\ IsCall("generateHistogram")
    /\ AllNumbersEqual(dataset, op.c1)
    /\ NumericCount(dataset, op.c1) = 2
    /\ op.bins > 1
    /\ result.ok
    /\ result.val.data[op.bins].count = 2

====
